---- MODULE Spec2Model ----
(***************************************************************************)
(* The VM lifecycle orchestration of cpanel/server.js: the create request  *)
(* (cloud-image strategy with bare-disk fallback), ensureDefaultNetwork,   *)
(* the delete request and the start/stop/... request, as processes that    *)
(* interleave at their awaits; and the metrics push of io.on('connection').*)
(*                                                                         *)
(* A request's pc names the external command it has issued and is waiting  *)
(* for.  The action of that name is the command's run (its effect on the   *)
(* host and its exit status) followed by the handler's synchronous code up *)
(* to the next await.  A command that would succeed on the host may still  *)
(* fail (tool missing, permission, disk full): an injected fault.          *)
(***************************************************************************)
EXTENDS Naturals, Integers, Sequences, FiniteSets, TLC

\* --------------------------------------------------------------- bounds
\* ensureDefaultNetwork calls each direct caller makes (SpecNet).
MaxCalls == 2
\* Injected faults over a run of two concurrent create requests (SpecRace).
MaxFaults == 1
\* Timer ticks of one WebSocket connection (SpecSocket).
MaxTicks == 2
\* The highest VNC display number the hypervisor assigns (SpecConsole).
MaxDisplay == 2

Unlimited == 0 - 1

Requests == {1, 2}
Clients == {1, 2}
Names == {"web1", "web2", "ghost", "lab KVM not available"}
DiskSizes == {10, 20}

VARIABLES
  host0,          \* the host when the run began: [net, baseImage, vm, disk]
  req,            \* request -> [kind, name, memory, cpus, diskSize]
  pc,             \* request -> the command awaited ("idle", "done" otherwise)
  caller,         \* request -> who called ensureDefaultNetwork
  cmds,           \* request -> the commands that have run for it, in order
  response,       \* request -> "pending", "ok" (200), "error" (500)
  body,           \* request -> the JSON body of its response
  fallbackCalls,  \* request -> number of createSimpleVM invocations
  fallbackArgs,   \* request -> arguments of the last createSimpleVM call
  results,        \* request -> outcomes of its finished direct calls, in order
  netAtEntry,     \* request -> network state when its direct call began
  net,            \* the hypervisor's network "default"
  otherNet,       \* a network named "default-nat" is defined
  tmpNetXml,      \* /tmp/default-network.xml exists
  baseImage,      \* the shared base cloud image file
  downloading,    \* requests whose wget is writing the base image
  copiedDuring,   \* request -> downloads in progress when its cp ran
  disk,           \* name -> the per-VM disk image
  seed,           \* name -> cloud-init artifacts present
  tmpVmXml,       \* name -> /tmp/<name>.xml exists
  vm,             \* name -> domain state in the hypervisor
  writes,         \* request -> paths it has written
  faultsLeft,     \* injected faults still allowed (Unlimited: any number)
  faulted,        \* request -> an injected fault hit one of its commands
  conn,           \* client -> its socket: "none", "connected", "disconnected"
  interval,       \* client -> its setInterval timer is live
  ticks,          \* client -> timer callbacks started so far
  ticksAtClose,   \* client -> timer callbacks started when it disconnected
  inflight,       \* client -> callbacks waiting for their metrics collection
  emitted,        \* client -> the events given to socket.emit, in order
  sent,           \* request -> responses sent for it (res.json, res.status().json)
  scan,           \* request -> the list handler's loop: names left, entries built
  ui,             \* request -> the dashboard that sent it: alerts, dialog, form
  upload          \* request -> an upload: parts to come, fields parsed, destination

host == <<net, otherNet, tmpNetXml, baseImage, downloading, disk, seed, tmpVmXml, vm>>
sock == <<conn, interval, ticks, ticksAtClose, inflight, emitted>>
extra == <<scan, ui, upload>>
http == <<req, host0, pc, caller, cmds, response, body, fallbackCalls, fallbackArgs, results,
          netAtEntry, net, otherNet, tmpNetXml, baseImage, downloading,
          copiedDuring, disk, seed, tmpVmXml, vm, writes, faultsLeft, faulted, sent>>
vars == <<req, host0, pc, caller, cmds, response, body, fallbackCalls, fallbackArgs, results,
          netAtEntry, net, otherNet, tmpNetXml, baseImage, downloading,
          copiedDuring, disk, seed, tmpVmXml, vm, writes, faultsLeft, faulted,
          conn, interval, ticks, ticksAtClose, inflight, emitted,
          sent, scan, ui, upload>>

\* ---------------------------------------------------------------- paths
VmPath(n) == <<"/var/lib/libvirt/images/", n, ".qcow2">>
CloudImage == <<"/var/lib/libvirt/images/cloud-images/", "ubuntu-22.04-server-cloudimg-amd64.img">>
CloudInitDir(n) == <<"/var/lib/libvirt/images/", n, "-cloud-init">>
CloudInitIso(n) == <<"/var/lib/libvirt/images/", n, "-cloud-init", ".iso">>
UserData(n) == <<"/var/lib/libvirt/images/", n, "-cloud-init", "/user-data">>
MetaData(n) == <<"/var/lib/libvirt/images/", n, "-cloud-init", "/meta-data">>
XmlFile(n) == <<"/tmp/", n, ".xml">>
NetworkFile == <<"/tmp/default-network.xml">>
NoPath == <<>>

NoArgs == [name |-> "", memory |-> 0, cpus |-> 0, diskSize |-> 0, vmPath |-> NoPath]
NoDisk == [content |-> "absent", size |-> 0]
\* The disk image of a domain that existed before the run: the guest's data.
GuestDisk == [content |-> "guest data", size |-> 10]

\* ---------------------------------------------------------------- texts
\* A text is the sequence of its pieces; the empty text is JavaScript's ''
\* and stands for undefined as well (both are falsy).
NoText == <<>>

\* What a failed command wrote on its standard error.
StderrOf(cmd, args) == <<"stderr of ", cmd>> \o args

\* The rejection of execAsync for a command that exited non-zero: Node's
\* message is "Command failed: " and the command line, a line break and
\* the captured standard error, which the error also carries as a field.
Rejection(cmd, args, stderr) ==
  [message |-> <<"Command failed: ", cmd>> \o args \o <<"\n">> \o stderr,
   stderr |-> stderr, stdout |-> NoText]

ExecError(cmd, args) == Rejection(cmd, args, StderrOf(cmd, args))

\* new Error('Failed to setup default network'): it has no stderr field.
SetupError ==
  [message |-> <<"Failed to setup default network">>, stderr |-> NoText, stdout |-> NoText]

\* error.stderr || error.stdout || 'Unknown error'
Details(e) ==
  IF e.stderr # NoText THEN e.stderr
  ELSE IF e.stdout # NoText THEN e.stdout
  ELSE <<"Unknown error">>

\* The response bodies.
NoConsole ==
  [vncDisplay |-> [colon |-> FALSE, num |-> 0 - 1], vncPort |-> 0 - 1, serverIP |-> "",
   consoleUrl |-> [scheme |-> "", host |-> "", port |-> 0 - 1],
   webConsoleUrl |-> [scheme |-> "", host |-> "", port |-> 0 - 1]]
NoFile == [destination |-> NoPath, filename |-> ""]
NoBody ==
  [message |-> NoText, error |-> NoText, details |-> NoText,
   vms |-> <<>>, virtualization |-> "", console |-> NoConsole,
   file |-> NoFile, databases |-> <<>>]
Created(n) == [NoBody EXCEPT !.message = <<"VM ", n, " created successfully">>]
Deleted(n) == [NoBody EXCEPT !.message = <<"VM ", n, " deleted successfully">>]
\* Failure answering with the command's standard error alone.
FailureStderr(e) == [NoBody EXCEPT !.error = e.stderr]

Failure(e) == [NoBody EXCEPT !.error = e.message]
CreateFailure(e) == [NoBody EXCEPT !.error = e.message, !.details = Details(e)]

\* What the variables beyond the VM requests hold while they are not used.
NoScan == [names |-> <<>>, vms |-> <<>>]
NoUi ==
  [alerts |-> <<>>, dialog |-> "open", form |-> "filled", reloads |-> 0,
   settled |-> "no", status |-> "", rows |-> <<>>]
NoUpload ==
  [sentParts |-> <<>>, parts |-> <<>>, reqBody |-> [path |-> NoPath],
   made |-> {}, file |-> NoFile]

\* ------------------------------------------------------ command outcomes
\* The exit statuses a command can have: one that fails on the host fails;
\* one that would succeed may also fail by an injected fault.
Results(sem) ==
  IF sem THEN (IF faultsLeft # 0 THEN {TRUE, FALSE} ELSE {TRUE}) ELSE {FALSE}

Account(r, sem, ok) ==
  /\ faulted' = [faulted EXCEPT ![r] = @ \/ (sem /\ ~ok)]
  /\ faultsLeft' = IF sem /\ ~ok /\ faultsLeft > 0 THEN faultsLeft - 1 ELSE faultsLeft

\* A command that has run: where in the code it was issued, the command,
\* the path it names, its exit status and what it printed.
LogOut(r, site, cmd, path, ok, out) ==
  cmds' = [cmds EXCEPT ![r] =
             Append(@, [site |-> site, cmd |-> cmd, path |-> path, ok |-> ok,
                        out |-> out, phase |-> caller[r]])]

Log(r, site, cmd, path, ok) == LogOut(r, site, cmd, path, ok, {})

\* The last command that has run for a request.
LastCmd(r) == cmds[r][Len(cmds[r])]

Wrote(r, paths) == writes' = [writes EXCEPT ![r] = @ \cup paths]

Goto(r, label) ==
  /\ pc' = [pc EXCEPT ![r] = label]
  /\ UNCHANGED <<caller, response, body, fallbackCalls, fallbackArgs, results, sock, extra, sent>>

\* res.json / res.status(500).json: the request is answered.
Respond(r, status, b) ==
  /\ pc' = [pc EXCEPT ![r] = "done"]
  /\ response' = [response EXCEPT ![r] = status]
  /\ body' = [body EXCEPT ![r] = b]
  /\ caller' = [caller EXCEPT ![r] = "none"]
  /\ sent' = [sent EXCEPT ![r] = @ + 1]
  /\ UNCHANGED <<fallbackCalls, fallbackArgs, results, sock, extra>>

\* The catch of the create handler: createSimpleVM(name, memory, cpus,
\* diskSize, vmPath), whose first await is ensureDefaultNetwork's net-list.
CallSimple(r) ==
  /\ fallbackCalls' = [fallbackCalls EXCEPT ![r] = @ + 1]
  /\ fallbackArgs' = [fallbackArgs EXCEPT ![r] =
                        [name |-> req[r].name, memory |-> req[r].memory,
                         cpus |-> req[r].cpus, diskSize |-> req[r].diskSize,
                         vmPath |-> VmPath(req[r].name)]]
  /\ caller' = [caller EXCEPT ![r] = "simple"]
  /\ pc' = [pc EXCEPT ![r] = "net_list"]
  /\ UNCHANGED <<response, body, results, sock, extra, sent>>

\* Throws with the create handler's inner catch missing: a failure of the
\* cloud-image strategy is answered as an error.
ThrowsNoFallback(r, e) ==
  CASE caller[r] \in {"cloud", "simple"} -> Respond(r, "error", CreateFailure(e))
    [] OTHER ->
         /\ pc' = [pc EXCEPT ![r] = "idle"]
         /\ response' = [response EXCEPT ![r] = "threw"]
         /\ results' = [results EXCEPT ![r] = Append(@, "threw")]
         /\ UNCHANGED <<caller, body, fallbackCalls, fallbackArgs, sock, extra, sent>>

\* An exception leaving the strategy the request is in.
Throws(r, e) ==
  CASE caller[r] = "cloud" -> CallSimple(r)
    [] caller[r] = "simple" -> Respond(r, "error", CreateFailure(e))
    [] OTHER ->
         /\ pc' = [pc EXCEPT ![r] = "idle"]
         /\ response' = [response EXCEPT ![r] = "threw"]
         /\ results' = [results EXCEPT ![r] = Append(@, "threw")]
         /\ UNCHANGED <<caller, body, fallbackCalls, fallbackArgs, sock, extra, sent>>

\* EnsureReturns with createSimpleVM defining the domain before it has
\* created the disk image.
EnsureReturnsSkipDisk(r) ==
  CASE caller[r] = "cloud" ->
         Goto(r, IF baseImage = "absent" THEN "wget_start" ELSE "cp")
    [] caller[r] = "simple" -> Goto(r, "define")
    [] OTHER ->
         /\ pc' = [pc EXCEPT ![r] = "idle"]
         /\ response' = [response EXCEPT ![r] = "returned"]
         /\ results' = [results EXCEPT ![r] = Append(@, "returned")]
         /\ UNCHANGED <<caller, body, fallbackCalls, fallbackArgs, sock, extra, sent>>

\* ensureDefaultNetwork returns: the caller goes on to its next await.
EnsureReturns(r) ==
  CASE caller[r] = "cloud" ->
         Goto(r, IF baseImage = "absent" THEN "wget_start" ELSE "cp")
    [] caller[r] = "simple" -> Goto(r, "qemu_create")
    [] OTHER ->
         /\ pc' = [pc EXCEPT ![r] = "idle"]
         /\ response' = [response EXCEPT ![r] = "returned"]
         /\ results' = [results EXCEPT ![r] = Append(@, "returned")]
         /\ UNCHANGED <<caller, body, fallbackCalls, fallbackArgs, sock, extra, sent>>

\* ------------------------------------------------- ensureDefaultNetwork
\* A network name, as the pieces the substring test can tell apart.
Default == <<"default">>
DefaultNat == <<"default", "-nat">>

\* virsh net-list --all: the names of the defined networks.
Listing ==
  (IF net.defined THEN {Default} ELSE {}) \cup (IF otherNet THEN {DefaultNat} ELSE {})

\* Includes as a test for a network whose name is exactly "default".
IncludesExactName(out) == Default \in out

\* networks.includes('default'): a substring test on the listing.
Includes(out) == \E n \in out : \E i \in 1..Len(n) : n[i] = "default"

\* virsh net-start default, as virsh answers for the network's state.
CanStart == net.defined /\ ~net.active

NetList(r) ==
  /\ pc[r] = "net_list"
  /\ \E ok \in Results(TRUE) :
       /\ Account(r, TRUE, ok)
       /\ LogOut(r, "net_list", "virsh net-list", NoPath, ok, IF ok THEN Listing ELSE {})
       /\ IF ~ok THEN
            /\ Goto(r, "alt_autostart")
            /\ UNCHANGED <<tmpNetXml, writes>>
          ELSE IF ~Includes(Listing) THEN
            /\ tmpNetXml' = TRUE
            /\ Wrote(r, {NetworkFile})
            /\ Goto(r, "net_define")
          ELSE
            /\ Goto(r, "net_start")
            /\ UNCHANGED <<tmpNetXml, writes>>
  /\ UNCHANGED <<req, host0, netAtEntry, net, otherNet, baseImage, downloading,
                 copiedDuring, disk, seed, tmpVmXml, vm>>

\* NetDefine with a failed registration followed by a start alone.
NetDefineStartOnly(r) ==
  /\ pc[r] = "net_define"
  /\ \E ok \in Results(tmpNetXml) :
       /\ Account(r, tmpNetXml, ok)
       /\ Log(r, "net_define", "virsh net-define", NetworkFile, ok)
       /\ net' = IF ok THEN [net EXCEPT !.defined = TRUE] ELSE net
       /\ Goto(r, IF ok THEN "net_rm" ELSE "alt_start")
  /\ UNCHANGED <<req, host0, netAtEntry, otherNet, tmpNetXml, baseImage, downloading,
                 copiedDuring, disk, seed, tmpVmXml, vm, writes>>

NetDefine(r) ==
  /\ pc[r] = "net_define"
  /\ \E ok \in Results(tmpNetXml) :
       /\ Account(r, tmpNetXml, ok)
       /\ Log(r, "net_define", "virsh net-define", NetworkFile, ok)
       /\ net' = IF ok THEN [net EXCEPT !.defined = TRUE] ELSE net
       /\ Goto(r, IF ok THEN "net_rm" ELSE "alt_autostart")
  /\ UNCHANGED <<req, host0, netAtEntry, otherNet, tmpNetXml, baseImage, downloading,
                 copiedDuring, disk, seed, tmpVmXml, vm, writes>>

NetRm(r) ==
  /\ pc[r] = "net_rm"
  /\ \E ok \in Results(TRUE) :
       /\ Account(r, TRUE, ok)
       /\ Log(r, "net_rm", "rm -f", NetworkFile, ok)
       /\ tmpNetXml' = IF ok THEN FALSE ELSE tmpNetXml
       /\ Goto(r, IF ok THEN "net_start" ELSE "alt_autostart")
  /\ UNCHANGED <<req, host0, netAtEntry, net, otherNet, baseImage, downloading,
                 copiedDuring, disk, seed, tmpVmXml, vm, writes>>

NetStart(r) ==
  /\ pc[r] = "net_start"
  /\ \E ok \in Results(CanStart) :
       /\ Account(r, CanStart, ok)
       /\ Log(r, "net_start", "virsh net-start", NoPath, ok)
       /\ net' = IF ok THEN [net EXCEPT !.active = TRUE] ELSE net
       /\ IF ok THEN EnsureReturns(r) ELSE Goto(r, "alt_autostart")
  /\ UNCHANGED <<req, host0, netAtEntry, otherNet, tmpNetXml, baseImage, downloading,
                 copiedDuring, disk, seed, tmpVmXml, vm, writes>>

AltAutostart(r) ==
  /\ pc[r] = "alt_autostart"
  /\ \E ok \in Results(net.defined) :
       /\ Account(r, net.defined, ok)
       /\ Log(r, "alt_autostart", "virsh net-autostart", NoPath, ok)
       /\ net' = IF ok THEN [net EXCEPT !.autostart = TRUE] ELSE net
       /\ IF ok THEN Goto(r, "alt_start") ELSE Throws(r, SetupError)
  /\ UNCHANGED <<req, host0, netAtEntry, otherNet, tmpNetXml, baseImage, downloading,
                 copiedDuring, disk, seed, tmpVmXml, vm, writes>>

AltStart(r) ==
  /\ pc[r] = "alt_start"
  /\ \E ok \in Results(CanStart) :
       /\ Account(r, CanStart, ok)
       /\ Log(r, "alt_start", "virsh net-start", NoPath, ok)
       /\ net' = IF ok THEN [net EXCEPT !.active = TRUE] ELSE net
       /\ IF ok THEN EnsureReturns(r) ELSE Throws(r, SetupError)
  /\ UNCHANGED <<req, host0, netAtEntry, otherNet, tmpNetXml, baseImage, downloading,
                 copiedDuring, disk, seed, tmpVmXml, vm, writes>>

\* A direct call of ensureDefaultNetwork, up to its first await.
CallEnsure(r) ==
  /\ req[r].kind = "net"
  /\ pc[r] = "idle"
  /\ Len(results[r]) < MaxCalls
  /\ pc' = [pc EXCEPT ![r] = "net_list"]
  /\ caller' = [caller EXCEPT ![r] = "direct"]
  /\ response' = [response EXCEPT ![r] = "pending"]
  /\ cmds' = [cmds EXCEPT ![r] = <<>>]
  /\ netAtEntry' = [netAtEntry EXCEPT ![r] = net]
  /\ UNCHANGED <<req, host0, body, fallbackCalls, fallbackArgs, results, host,
                 copiedDuring, writes, faultsLeft, faulted, sock, extra, sent>>

\* ------------------------------------------------ POST /api/vms/create
\* The handler up to createVMWithCloudImage's first await (mkdir -p).
StartCreate(r) ==
  /\ req[r].kind = "create"
  /\ pc[r] = "idle"
  /\ response[r] = "pending"
  /\ pc' = [pc EXCEPT ![r] = "mkdir_images"]
  /\ caller' = [caller EXCEPT ![r] = "cloud"]
  /\ UNCHANGED <<req, host0, cmds, response, body, fallbackCalls, fallbackArgs,
                 results, netAtEntry, host, copiedDuring, writes, faultsLeft, faulted,
                 sock, extra, sent>>

MkdirImages(r) ==
  /\ pc[r] = "mkdir_images"
  /\ \E ok \in Results(TRUE) :
       /\ Account(r, TRUE, ok)
       /\ Log(r, "mkdir_images", "mkdir -p", <<CloudImage[1]>>, ok)
       /\ IF ok THEN Goto(r, "net_list")
          ELSE Throws(r, ExecError("mkdir -p", <<CloudImage[1]>>))
  /\ UNCHANGED <<req, host0, netAtEntry, host, copiedDuring, writes>>

\* wget -O opens (creates or truncates) the output file when it starts.
WgetStart(r) ==
  /\ pc[r] = "wget_start"
  /\ baseImage' = "partial"
  /\ downloading' = downloading \cup {r}
  /\ Wrote(r, {CloudImage})
  /\ Goto(r, "wget")
  /\ UNCHANGED <<req, host0, cmds, netAtEntry, net, otherNet, tmpNetXml, copiedDuring,
                 disk, seed, tmpVmXml, vm, faultsLeft, faulted>>

\* The file's content when a download ends: whole, unless another download
\* that truncated it is still writing; a failed download leaves it partial.
ImageAfter(r, ok) ==
  IF ~ok THEN {"partial"}
  ELSE IF downloading \ {r} = {} THEN {"complete"}
  ELSE {"partial", "complete"}

Wget(r) ==
  /\ pc[r] = "wget"
  /\ \E ok \in Results(TRUE) :
       /\ Account(r, TRUE, ok)
       /\ Log(r, "wget", "wget -O", CloudImage, ok)
       /\ \E c \in ImageAfter(r, ok) : baseImage' = c
       /\ IF ok THEN Goto(r, "cp") ELSE Throws(r, ExecError("wget -O", CloudImage))
  /\ downloading' = downloading \ {r}
  /\ UNCHANGED <<req, host0, netAtEntry, net, otherNet, tmpNetXml, copiedDuring,
                 disk, seed, tmpVmXml, vm, writes>>

\* cp cloudImage vmPath: nothing holds the copy back while the base image
\* is being written.
CanCopy(r) == baseImage # "absent"

\* Cp with one more attempt after a failed copy.
CpRetryOnce(r) ==
  /\ pc[r] = "cp"
  /\ \E ok \in Results(CanCopy(r)) :
       /\ Account(r, CanCopy(r), ok)
       /\ LogOut(r, "cp", "cp", VmPath(req[r].name), ok, IF ok THEN {baseImage} ELSE {})
       /\ IF ok THEN
            /\ disk' = [disk EXCEPT ![req[r].name] = [content |-> baseImage, size |-> 0]]
            /\ copiedDuring' = [copiedDuring EXCEPT ![r] = downloading]
            /\ Wrote(r, {VmPath(req[r].name)})
            /\ Goto(r, "resize")
          ELSE
            /\ IF \E i \in 1..Len(cmds[r]) : cmds[r][i].site = "cp"
               THEN Throws(r, ExecError("cp", VmPath(req[r].name)))
               ELSE Goto(r, "cp")
            /\ UNCHANGED <<disk, copiedDuring, writes>>
  /\ UNCHANGED <<req, host0, netAtEntry, net, otherNet, tmpNetXml, baseImage,
                 downloading, seed, tmpVmXml, vm>>

Cp(r) ==
  /\ pc[r] = "cp"
  /\ \E ok \in Results(CanCopy(r)) :
       /\ Account(r, CanCopy(r), ok)
       /\ LogOut(r, "cp", "cp", VmPath(req[r].name), ok, IF ok THEN {baseImage} ELSE {})
       /\ IF ok THEN
            /\ disk' = [disk EXCEPT ![req[r].name] = [content |-> baseImage, size |-> 0]]
            /\ copiedDuring' = [copiedDuring EXCEPT ![r] = downloading]
            /\ Wrote(r, {VmPath(req[r].name)})
            /\ Goto(r, "resize")
          ELSE
            /\ Throws(r, ExecError("cp", VmPath(req[r].name)))
            /\ UNCHANGED <<disk, copiedDuring, writes>>
  /\ UNCHANGED <<req, host0, netAtEntry, net, otherNet, tmpNetXml, baseImage,
                 downloading, seed, tmpVmXml, vm>>

DiskExists(n) == disk[n].content # "absent"

Resize(r) ==
  /\ pc[r] = "resize"
  /\ \E ok \in Results(DiskExists(req[r].name)) :
       /\ Account(r, DiskExists(req[r].name), ok)
       /\ Log(r, "resize", "qemu-img resize", VmPath(req[r].name), ok)
       /\ IF ok THEN
            /\ disk' = [disk EXCEPT ![req[r].name].size = req[r].diskSize]
            /\ Wrote(r, {VmPath(req[r].name)})
            /\ Goto(r, "mkdir_seed")
          ELSE
            /\ Throws(r, ExecError("qemu-img resize", VmPath(req[r].name)))
            /\ UNCHANGED <<disk, writes>>
  /\ UNCHANGED <<req, host0, netAtEntry, net, otherNet, tmpNetXml, baseImage,
                 downloading, copiedDuring, seed, tmpVmXml, vm>>

\* mkdir -p cloudInitDir, then the two writeFileSync calls.
MkdirSeed(r) ==
  /\ pc[r] = "mkdir_seed"
  /\ \E ok \in Results(TRUE) :
       /\ Account(r, TRUE, ok)
       /\ Log(r, "mkdir_seed", "mkdir -p", CloudInitDir(req[r].name), ok)
       /\ IF ok THEN
            /\ seed' = [seed EXCEPT ![req[r].name] = @ \cup {"dir", "user-data", "meta-data"}]
            /\ Wrote(r, {CloudInitDir(req[r].name), UserData(req[r].name), MetaData(req[r].name)})
            /\ Goto(r, "genisoimage")
          ELSE
            /\ Throws(r, ExecError("mkdir -p", CloudInitDir(req[r].name)))
            /\ UNCHANGED <<seed, writes>>
  /\ UNCHANGED <<req, host0, netAtEntry, net, otherNet, tmpNetXml, baseImage,
                 downloading, copiedDuring, disk, tmpVmXml, vm>>

SeedReady(n) == {"user-data", "meta-data"} \subseteq seed[n]

Genisoimage(r) ==
  /\ pc[r] = "genisoimage"
  /\ \E ok \in Results(SeedReady(req[r].name)) :
       /\ Account(r, SeedReady(req[r].name), ok)
       /\ Log(r, "genisoimage", "genisoimage", CloudInitIso(req[r].name), ok)
       /\ IF ok THEN
            /\ seed' = [seed EXCEPT ![req[r].name] = @ \cup {"iso"}]
            /\ Wrote(r, {CloudInitIso(req[r].name)})
            /\ Goto(r, "virt_install")
          ELSE
            /\ Throws(r, ExecError("genisoimage", CloudInitIso(req[r].name)))
            /\ UNCHANGED <<seed, writes>>
  /\ UNCHANGED <<req, host0, netAtEntry, net, otherNet, tmpNetXml, baseImage,
                 downloading, copiedDuring, disk, tmpVmXml, vm>>

\* The hypervisor rejects a domain whose name is taken.
NameFree(n) == vm[n] = "undefined"

\* VirtInstall with the per-VM disk image removed when the import fails.
VirtInstallCleanup(r) ==
  /\ pc[r] = "virt_install"
  /\ \E ok \in Results(NameFree(req[r].name)) :
       /\ Account(r, NameFree(req[r].name), ok)
       /\ Log(r, "virt_install", "virt-install --import", VmPath(req[r].name), ok)
       /\ vm' = IF ok THEN [vm EXCEPT ![req[r].name] = "running"] ELSE vm
       /\ disk' = IF ok THEN disk ELSE [disk EXCEPT ![req[r].name] = NoDisk]
       /\ IF ok THEN Respond(r, "ok", Created(req[r].name))
          ELSE Throws(r, ExecError("virt-install --import", VmPath(req[r].name)))
  /\ UNCHANGED <<req, host0, netAtEntry, net, otherNet, tmpNetXml, baseImage,
                 downloading, copiedDuring, seed, tmpVmXml, writes>>

VirtInstall(r) ==
  /\ pc[r] = "virt_install"
  /\ \E ok \in Results(NameFree(req[r].name)) :
       /\ Account(r, NameFree(req[r].name), ok)
       /\ Log(r, "virt_install", "virt-install --import", VmPath(req[r].name), ok)
       /\ vm' = IF ok THEN [vm EXCEPT ![req[r].name] = "running"] ELSE vm
       /\ IF ok THEN Respond(r, "ok", Created(req[r].name))
          ELSE Throws(r, ExecError("virt-install --import", VmPath(req[r].name)))
  /\ UNCHANGED <<req, host0, netAtEntry, net, otherNet, tmpNetXml, baseImage,
                 downloading, copiedDuring, disk, seed, tmpVmXml, writes>>

\* ------------------------------------------------------- createSimpleVM
\* qemu-img create, then writeFileSync(xmlFile).
QemuCreate(r) ==
  /\ pc[r] = "qemu_create"
  /\ \E ok \in Results(TRUE) :
       /\ Account(r, TRUE, ok)
       /\ Log(r, "qemu_create", "qemu-img create", VmPath(req[r].name), ok)
       /\ IF ok THEN
            /\ disk' = [disk EXCEPT ![req[r].name] =
                          [content |-> "blank", size |-> req[r].diskSize]]
            /\ tmpVmXml' = [tmpVmXml EXCEPT ![req[r].name] = TRUE]
            /\ Wrote(r, {VmPath(req[r].name), XmlFile(req[r].name)})
            /\ Goto(r, "define")
          ELSE
            /\ Throws(r, ExecError("qemu-img create", VmPath(req[r].name)))
            /\ UNCHANGED <<disk, tmpVmXml, writes>>
  /\ UNCHANGED <<req, host0, netAtEntry, net, otherNet, tmpNetXml, baseImage,
                 downloading, copiedDuring, seed, vm>>

CanDefine(n) == tmpVmXml[n] /\ NameFree(n)

Define(r) ==
  /\ pc[r] = "define"
  /\ \E ok \in Results(CanDefine(req[r].name)) :
       /\ Account(r, CanDefine(req[r].name), ok)
       /\ Log(r, "define", "virsh define", XmlFile(req[r].name), ok)
       /\ vm' = IF ok THEN [vm EXCEPT ![req[r].name] = "shut off"] ELSE vm
       /\ IF ok THEN Goto(r, "rm_xml")
          ELSE Throws(r, ExecError("virsh define", XmlFile(req[r].name)))
  /\ UNCHANGED <<req, host0, netAtEntry, net, otherNet, tmpNetXml, baseImage,
                 downloading, copiedDuring, disk, seed, tmpVmXml, writes>>

RmXml(r) ==
  /\ pc[r] = "rm_xml"
  /\ \E ok \in Results(TRUE) :
       /\ Account(r, TRUE, ok)
       /\ Log(r, "rm_xml", "rm -f", XmlFile(req[r].name), ok)
       /\ tmpVmXml' = IF ok THEN [tmpVmXml EXCEPT ![req[r].name] = FALSE] ELSE tmpVmXml
       /\ IF ok THEN Respond(r, "ok", Created(req[r].name))
          ELSE Throws(r, ExecError("rm -f", XmlFile(req[r].name)))
  /\ UNCHANGED <<req, host0, netAtEntry, net, otherNet, tmpNetXml, baseImage,
                 downloading, copiedDuring, disk, seed, vm, writes>>

\* ----------------------------------------------- DELETE /api/vms/:vmName
StartDelete(r) ==
  /\ req[r].kind = "delete"
  /\ pc[r] = "idle"
  /\ response[r] = "pending"
  /\ pc' = [pc EXCEPT ![r] = "destroy"]
  /\ caller' = [caller EXCEPT ![r] = "delete"]
  /\ UNCHANGED <<req, host0, cmds, response, body, fallbackCalls, fallbackArgs,
                 results, netAtEntry, host, copiedDuring, writes, faultsLeft, faulted,
                 sock, extra, sent>>

IsRunning(n) == vm[n] \in {"running", "transient"}

\* Destroy without the "|| true": a failed force-stop rejects the await.
DestroyPropagates(r) ==
  /\ pc[r] = "destroy"
  /\ \E ok \in Results(IsRunning(req[r].name)) :
       /\ Account(r, IsRunning(req[r].name), ok)
       /\ Log(r, "destroy", "virsh destroy", NoPath, ok)
       /\ vm' = IF ok
                THEN [vm EXCEPT ![req[r].name] =
                        IF @ = "transient" THEN "undefined" ELSE "shut off"]
                ELSE vm
       /\ IF ok THEN Goto(r, "undefine")
          ELSE Respond(r, "error", Failure(ExecError("virsh destroy", <<req[r].name>>)))
  /\ UNCHANGED <<req, host0, netAtEntry, net, otherNet, tmpNetXml, baseImage,
                 downloading, copiedDuring, disk, seed, tmpVmXml, writes>>

\* virsh destroy <name> 2>/dev/null || true: the shell exits 0 whatever
\* virsh does, so the await never rejects.
Destroy(r) ==
  /\ pc[r] = "destroy"
  /\ \E ok \in Results(IsRunning(req[r].name)) :
       /\ Account(r, IsRunning(req[r].name), ok)
       /\ Log(r, "destroy", "virsh destroy", NoPath, ok)
       /\ vm' = IF ok
                THEN [vm EXCEPT ![req[r].name] =
                        IF @ = "transient" THEN "undefined" ELSE "shut off"]
                ELSE vm
  /\ Goto(r, "undefine")
  /\ UNCHANGED <<req, host0, netAtEntry, net, otherNet, tmpNetXml, baseImage,
                 downloading, copiedDuring, disk, seed, tmpVmXml, writes>>

\* virsh undefine works on a persistent domain; one still running stays
\* running without its definition.
CanUndefine(n) == vm[n] \in {"shut off", "running"}

Undefine(r) ==
  /\ pc[r] = "undefine"
  /\ \E ok \in Results(CanUndefine(req[r].name)) :
       /\ Account(r, CanUndefine(req[r].name), ok)
       /\ Log(r, "undefine", "virsh undefine", NoPath, ok)
       /\ vm' = IF ok
                THEN [vm EXCEPT ![req[r].name] =
                        IF @ = "running" THEN "transient" ELSE "undefined"]
                ELSE vm
       /\ IF ok THEN Goto(r, "rm_disk")
          ELSE Respond(r, "error", Failure(ExecError("virsh undefine", <<req[r].name>>)))
  /\ UNCHANGED <<req, host0, netAtEntry, net, otherNet, tmpNetXml, baseImage,
                 downloading, copiedDuring, disk, seed, tmpVmXml, writes>>

RmDisk(r) ==
  /\ pc[r] = "rm_disk"
  /\ \E ok \in Results(TRUE) :
       /\ Account(r, TRUE, ok)
       /\ Log(r, "rm_disk", "rm -f", VmPath(req[r].name), ok)
       /\ disk' = IF ok THEN [disk EXCEPT ![req[r].name] = NoDisk] ELSE disk
       /\ IF ok THEN Respond(r, "ok", Deleted(req[r].name))
          ELSE Respond(r, "error", Failure(ExecError("rm -f", VmPath(req[r].name))))
  /\ UNCHANGED <<req, host0, netAtEntry, net, otherNet, tmpNetXml, baseImage,
                 downloading, copiedDuring, seed, tmpVmXml, vm, writes>>

\* ------------------------------------------ POST /api/vms/:vmName/:action
validActions == {"start", "stop", "shutdown", "reboot", "suspend", "resume"}

\* Path segments a client can send as :action that are not in the list.
OtherActions == {"destroy", "undefine", "START"}

\* What virsh can write on its standard error, as the pieces the three
\* includes() tests can tell apart.
Stderrs ==
  {NoText,
   <<"warning: ", "Domain", " is tainted">>,
   <<"already ", "started">>,
   <<"stopped">>,
   <<"error: ", "domain", " not found">>,
   <<"libvirt: ", "connection reset">>}

\* stderr.includes(word)
StrIncludes(text, word) == \E i \in 1..Len(text) : text[i] = word

\* Unexpected with any output on standard error taken as a failure.
UnexpectedAny(stderr) == stderr # NoText

\* stderr && !stderr.includes('Domain') && !stderr.includes('started')
\*        && !stderr.includes('stopped')
Unexpected(stderr) ==
  /\ stderr # NoText
  /\ ~StrIncludes(stderr, "Domain")
  /\ ~StrIncludes(stderr, "started")
  /\ ~StrIncludes(stderr, "stopped")

\* virsh <action> <name>, as the hypervisor answers for the domain's
\* state; virsh has no command named stop.
Applicable(a, s) ==
  CASE a = "start" -> s = "shut off"
    [] a \in {"shutdown", "reboot", "suspend"} -> s = "running"
    [] a = "resume" -> s = "paused"
    [] OTHER -> FALSE

CanApply(a, n) == Applicable(a, vm[n])

Applied(a) ==
  CASE a = "start" -> "running"
    [] a = "shutdown" -> "shut off"
    [] a = "suspend" -> "paused"
    [] OTHER -> "running"

Invalid == [NoBody EXCEPT !.error = <<"Invalid action">>]
ActionDone(n, a) == [NoBody EXCEPT !.message = <<"VM ", n, " ", a, "ed successfully">>]

\* StartLifecycle without the validActions test.
StartLifecycleUnchecked(r) ==
  /\ req[r].kind = "lifecycle"
  /\ pc[r] = "idle"
  /\ response[r] = "pending"
  /\ pc' = [pc EXCEPT ![r] = "virsh_action"]
  /\ caller' = [caller EXCEPT ![r] = "lifecycle"]
  /\ UNCHANGED <<response, body, fallbackCalls, fallbackArgs, results, sock, extra, sent>>
  /\ UNCHANGED <<req, host0, cmds, netAtEntry, host, copiedDuring, writes,
                 faultsLeft, faulted>>

\* The handler up to its await: an action outside the list is answered
\* 400 at once.
StartLifecycle(r) ==
  /\ req[r].kind = "lifecycle"
  /\ pc[r] = "idle"
  /\ response[r] = "pending"
  /\ IF req[r].action \notin validActions THEN
       Respond(r, "invalid", Invalid)
     ELSE
       /\ pc' = [pc EXCEPT ![r] = "virsh_action"]
       /\ caller' = [caller EXCEPT ![r] = "lifecycle"]
       /\ UNCHANGED <<response, body, fallbackCalls, fallbackArgs, results, sock, extra, sent>>
  /\ UNCHANGED <<req, host0, cmds, netAtEntry, host, copiedDuring, writes,
                 faultsLeft, faulted>>

\* The answer to a command that exited with ok and wrote stderr.
LifecycleAnswer(r, ok, stderr, unexpected) ==
  IF ~ok THEN
    Respond(r, "error",
            Failure(Rejection("virsh", <<req[r].action, req[r].name>>, stderr)))
  ELSE IF unexpected THEN
    Respond(r, "error", Failure([message |-> stderr, stderr |-> NoText, stdout |-> NoText]))
  ELSE
    Respond(r, "ok", ActionDone(req[r].name, req[r].action))

VirshAction(r) ==
  /\ pc[r] = "virsh_action"
  /\ \E ok \in Results(CanApply(req[r].action, req[r].name)), stderr \in Stderrs :
       /\ Account(r, CanApply(req[r].action, req[r].name), ok)
       /\ LogOut(r, "virsh_action", "virsh", <<req[r].action, req[r].name>>, ok, stderr)
       /\ vm' = IF ok THEN [vm EXCEPT ![req[r].name] = Applied(req[r].action)] ELSE vm
       /\ LifecycleAnswer(r, ok, stderr, Unexpected(stderr))
  /\ UNCHANGED <<req, host0, netAtEntry, net, otherNet, tmpNetXml, baseImage,
                 downloading, copiedDuring, disk, seed, tmpVmXml, writes>>

\* --------------------------------- POST /api/services/:service/:action
serviceActions == {"start", "stop", "restart", "reload"}

\* Service names a client can send: a unit of the host, a unit it does not
\* have, and a value with a shell metacharacter in it.
Services == {"nginx", "nosuch"}
HostileServices == {"nginx; reboot"}

\* A value as the words the shell sees when it is pasted into a command.
ShellWords(value) ==
  IF value = "nginx; reboot" THEN <<"nginx", ";", "reboot">> ELSE <<value>>

\* The simple commands the shell runs for a command line: its words, cut
\* at every ";".
RECURSIVE Programs(_)
Programs(line) ==
  IF \A i \in 1..Len(line) : line[i] # ";" THEN <<line>>
  ELSE LET i == CHOOSE i \in 1..Len(line) :
                  line[i] = ";" /\ \A j \in 1..(i - 1) : line[j] # ";"
       IN <<SubSeq(line, 1, i - 1)>> \o Programs(SubSeq(line, i + 1, Len(line)))

\* systemctl <action> <unit> works on a unit the host has.
UnitKnown(words) == words[1] = "nginx"

ServiceDone(sv, a) == [NoBody EXCEPT !.message = <<"Service ", sv, " ", a, "ed successfully">>]

\* res.status(500).json({ error: stderr || error.message })
ExecFailure(e) == [NoBody EXCEPT !.error = IF e.stderr # NoText THEN e.stderr ELSE e.message]

\* StartService without the validActions test.
StartServiceUnchecked(r) ==
  /\ req[r].kind = "service"
  /\ pc[r] = "idle"
  /\ response[r] = "pending"
  /\ Goto(r, "systemctl")
  /\ UNCHANGED <<req, host0, cmds, netAtEntry, host, copiedDuring, writes,
                 faultsLeft, faulted>>

\* The handler up to its exec: an action outside the list is answered 400.
StartService(r) ==
  /\ req[r].kind = "service"
  /\ pc[r] = "idle"
  /\ response[r] = "pending"
  /\ IF req[r].action \notin serviceActions
     THEN Respond(r, "invalid", Invalid)
     ELSE Goto(r, "systemctl")
  /\ UNCHANGED <<req, host0, cmds, netAtEntry, host, copiedDuring, writes,
                 faultsLeft, faulted>>

\* exec(`systemctl ${action} ${service}`, callback): the shell runs the
\* programs of the line one after the other and exits with the status of
\* the last; the callback answers by that status.
Systemctl(r) ==
  /\ pc[r] = "systemctl"
  /\ LET words == ShellWords(req[r].name)
         progs == Programs(<<"systemctl", req[r].action>> \o words)
     IN \E ok \in Results(UnitKnown(words)), last \in BOOLEAN :
          LET exit == IF Len(progs) = 1 THEN ok ELSE last IN
          /\ Len(progs) = 1 => last
          /\ Account(r, UnitKnown(words), ok)
          /\ LogOut(r, "systemctl", "systemctl", <<req[r].action>> \o words, exit,
                    [i \in 1..Len(progs) |->
                       [program |-> progs[i],
                        ok |-> IF i = 1 THEN ok ELSE IF i = Len(progs) THEN last ELSE TRUE]])
          /\ IF exit
             THEN Respond(r, "ok", ServiceDone(req[r].name, req[r].action))
             ELSE Respond(r, "error",
                          ExecFailure(ExecError("systemctl", <<req[r].action>> \o words)))
  /\ UNCHANGED <<req, host0, netAtEntry, host, copiedDuring, writes>>

\* ----------------------------------------- GET /api/vms/:vmName/console
\* virsh vncdisplay prints ":N" for display N: a colon and the number.
Displays == [colon : {TRUE}, num : 0..MaxDisplay]
ServerIPs == {"10.0.0.5", "192.168.1.10"}

\* port = display.replace(':', ''): what is left without the colon, the
\* display number itself.
PortOf(display) == display.num

\* fix-vnc-ports.sh: display_num = the text without ":", port = 5900 for
\* display 0 and 5900 + display_num otherwise.
ScriptPort(display) == IF display.num = 0 THEN 5900 ELSE 5900 + display.num

ConsoleInfo(display, ip) ==
  [NoBody EXCEPT
     !.message = <<"Console information retrieved">>,
     !.console = [vncDisplay |-> display, vncPort |-> PortOf(display), serverIP |-> ip,
                  consoleUrl |-> [scheme |-> "vnc", host |-> ip, port |-> PortOf(display)],
                  webConsoleUrl |-> [scheme |-> "http", host |-> ip, port |-> PortOf(display)]]]

ConsoleFailure(e) ==
  [NoBody EXCEPT !.error = <<"Failed to get console info: ">> \o e.message]

StartConsole(r) ==
  /\ req[r].kind = "console"
  /\ pc[r] = "idle"
  /\ response[r] = "pending"
  /\ Goto(r, "vncdisplay")
  /\ UNCHANGED <<req, host0, cmds, netAtEntry, host, copiedDuring, writes,
                 faultsLeft, faulted>>

\* virsh vncdisplay <name>: the display of a running domain.
VncDisplay(r) ==
  /\ pc[r] = "vncdisplay"
  /\ \E ok \in Results(vm[req[r].name] = "running"), display \in Displays :
       /\ Account(r, vm[req[r].name] = "running", ok)
       /\ LogOut(r, "vncdisplay", "virsh vncdisplay", <<req[r].name>>, ok,
                 IF ok THEN {display} ELSE {})
       /\ IF ok THEN Goto(r, "hostname")
          ELSE Respond(r, "error",
                       ConsoleFailure(ExecError("virsh vncdisplay", <<req[r].name>>)))
  /\ UNCHANGED <<req, host0, netAtEntry, host, copiedDuring, writes>>

\* hostname -I | awk '{print $1}', and the answer.
Hostname(r) ==
  /\ pc[r] = "hostname"
  /\ \E ok \in Results(TRUE), ip \in ServerIPs :
       /\ Account(r, TRUE, ok)
       /\ LogOut(r, "hostname", "hostname -I", NoPath, ok, IF ok THEN {ip} ELSE {})
       /\ IF ok
          THEN \E display \in LastCmd(r).out : Respond(r, "ok", ConsoleInfo(display, ip))
          ELSE Respond(r, "error", ConsoleFailure(ExecError("hostname -I", NoPath)))
  /\ UNCHANGED <<req, host0, netAtEntry, host, copiedDuring, writes>>

\* -------------------------------------------------------- GET /api/vms
\* The order in which virsh list prints the domains.
NameOrder == <<"ghost", "lab KVM not available", "web1", "web2">>

\* A line of output, as the pieces the sentinel test can tell apart.
Pieces(line) ==
  IF line = "lab KVM not available" THEN <<"lab ", "KVM not available">> ELSE <<line>>

\* virsh list --all --name 2>/dev/null || echo "KVM not available": the
\* domains the hypervisor knows, or the sentinel when virsh failed.
ListOutput(ok) ==
  IF ok THEN SelectSeq(NameOrder, LAMBDA n : vm[n] # "undefined")
  ELSE <<"KVM not available">>

\* IsSentinel as a test for a line that is the sentinel and nothing else.
IsSentinelLine(out) == \E i \in 1..Len(out) : out[i] = "KVM not available"

\* vmsOutput.includes('KVM not available'): a substring test on the output.
IsSentinel(out) ==
  \E i \in 1..Len(out) : \E j \in 1..Len(Pieces(out[i])) :
    Pieces(out[i])[j] = "KVM not available"

ListBody(vms, virtualization) ==
  [NoBody EXCEPT !.vms = vms, !.virtualization = virtualization]

\* The list handler moves to its next await with its loop state sc.
ListGoto(r, label, sc) ==
  /\ pc' = [pc EXCEPT ![r] = label]
  /\ scan' = [scan EXCEPT ![r] = sc]
  /\ UNCHANGED <<caller, response, body, fallbackCalls, fallbackArgs, results, sent,
                 sock, ui, upload>>

\* The loop goes on to the next name, or the handler answers.
NextName(r, vms) ==
  IF Len(scan[r].names) > 1
  THEN ListGoto(r, "dominfo", [names |-> Tail(scan[r].names), vms |-> vms])
  ELSE Respond(r, "ok", ListBody(vms, "kvm"))

StartList(r) ==
  /\ req[r].kind = "list"
  /\ pc[r] = "idle"
  /\ response[r] = "pending"
  /\ ListGoto(r, "virsh_list", NoScan)
  /\ UNCHANGED <<req, host0, cmds, netAtEntry, host, copiedDuring, writes,
                 faultsLeft, faulted>>

VirshList(r) ==
  /\ pc[r] = "virsh_list"
  /\ \E ok \in Results(TRUE) :
       /\ Account(r, TRUE, ok)
       /\ LogOut(r, "virsh_list", "virsh list --all --name", NoPath, ok, ListOutput(ok))
       /\ IF IsSentinel(ListOutput(ok)) THEN Respond(r, "ok", ListBody(<<>>, "none"))
          ELSE IF ListOutput(ok) = <<>> THEN Respond(r, "ok", ListBody(<<>>, "kvm"))
          ELSE ListGoto(r, "dominfo", [names |-> ListOutput(ok), vms |-> <<>>])
  /\ UNCHANGED <<req, host0, netAtEntry, host, copiedDuring, writes>>

Known(n) == vm[n] # "undefined"

\* virsh dominfo: a failure is caught inside the loop and skips the name.
Dominfo(r) ==
  /\ pc[r] = "dominfo"
  /\ LET n == Head(scan[r].names) IN
     \E ok \in Results(Known(n)) :
       /\ Account(r, Known(n), ok)
       /\ Log(r, "dominfo", "virsh dominfo", <<n>>, ok)
       /\ IF ok THEN ListGoto(r, "domstate", scan[r]) ELSE NextName(r, scan[r].vms)
  /\ UNCHANGED <<req, host0, netAtEntry, host, copiedDuring, writes>>

Domstate(r) ==
  /\ pc[r] = "domstate"
  /\ LET n == Head(scan[r].names) IN
     \E ok \in Results(Known(n)) :
       /\ Account(r, Known(n), ok)
       /\ LogOut(r, "domstate", "virsh domstate", <<n>>, ok, IF ok THEN {vm[n]} ELSE {})
       /\ IF ok
          THEN ListGoto(r, "domstats",
                        [scan[r] EXCEPT !.vms = Append(@, [name |-> n, state |-> vm[n]])])
          ELSE NextName(r, scan[r].vms)
  /\ UNCHANGED <<req, host0, netAtEntry, host, copiedDuring, writes>>

\* virsh domstats ... 2>/dev/null || echo "": the shell exits 0 whatever
\* virsh does; the entry is pushed with the statistics or without.
Domstats(r) ==
  /\ pc[r] = "domstats"
  /\ LET n == Head(scan[r].names) IN
     \E ok \in Results(Known(n)) :
       /\ Account(r, Known(n), ok)
       /\ Log(r, "domstats", "virsh domstats", <<n>>, ok)
       /\ NextName(r, scan[r].vms)
  /\ UNCHANGED <<req, host0, netAtEntry, host, copiedDuring, writes>>

\* ------------------------------------------------ io.on('connection')
\* The connection handler: one setInterval per socket.
Connect(c) ==
  /\ conn[c] = "none"
  /\ conn' = [conn EXCEPT ![c] = "connected"]
  /\ interval' = [interval EXCEPT ![c] = TRUE]
  /\ UNCHANGED <<ticks, ticksAtClose, inflight, emitted, http, extra>>

\* The timer fires: the callback runs up to its await of Promise.all.  A
\* callback is started whether or not an earlier one has finished.
Tick(c) ==
  /\ interval[c]
  /\ ticks[c] < MaxTicks
  /\ ticks' = [ticks EXCEPT ![c] = @ + 1]
  /\ inflight' = [inflight EXCEPT ![c] = @ \cup {ticks[c] + 1}]
  /\ UNCHANGED <<conn, interval, ticksAtClose, emitted, http, extra>>

\* What a callback emits when its collection has settled.
Event(ok) == IF ok THEN "systemUpdate" ELSE "error"

\* Emit for a callback that stays silent when its collection failed.
EmitOnSuccessOnly(c, k, ok) ==
  IF ok THEN
    emitted' = [emitted EXCEPT ![c] =
                  Append(@, [tick |-> k, ok |-> ok, event |-> Event(ok), state |-> conn[c]])]
  ELSE UNCHANGED emitted

\* socket.emit('systemUpdate', ...) in the try, socket.emit('error', ...)
\* in the catch: nothing looks at the socket's state first.
Emit(c, k, ok) ==
  emitted' = [emitted EXCEPT ![c] =
                Append(@, [tick |-> k, ok |-> ok, event |-> Event(ok), state |-> conn[c]])]

\* The collection of callback k settles (the three promises resolved, or
\* one rejected) and the callback runs to its end.
Collected(c, k) ==
  /\ k \in inflight[c]
  /\ inflight' = [inflight EXCEPT ![c] = @ \ {k}]
  /\ \E ok \in BOOLEAN : Emit(c, k, ok)
  /\ UNCHANGED <<conn, interval, ticks, ticksAtClose, http, extra>>

\* The disconnect handler: clearInterval(interval).
Disconnect(c) ==
  /\ conn[c] = "connected"
  /\ conn' = [conn EXCEPT ![c] = "disconnected"]
  /\ interval' = [interval EXCEPT ![c] = FALSE]
  /\ ticksAtClose' = [ticksAtClose EXCEPT ![c] = ticks[c]]
  /\ UNCHANGED <<ticks, inflight, emitted, http, extra>>

\* -------------------------------------------------------- specifications
NetStates ==
  {[defined |-> FALSE, active |-> FALSE, autostart |-> FALSE]}
    \cup [defined : {TRUE}, active : BOOLEAN, autostart : BOOLEAN]

CreateReq(n, d) ==
  [kind |-> "create", name |-> n, action |-> "", memory |-> 1024, cpus |-> 1, diskSize |-> d]
DeleteReq(n) ==
  [kind |-> "delete", name |-> n, action |-> "", memory |-> 0, cpus |-> 0, diskSize |-> 0]
NetReq ==
  [kind |-> "net", name |-> "", action |-> "", memory |-> 0, cpus |-> 0, diskSize |-> 0]
ListReq ==
  [kind |-> "list", name |-> "", action |-> "", memory |-> 0, cpus |-> 0, diskSize |-> 0]
ServiceReq(sv, a) ==
  [kind |-> "service", name |-> sv, action |-> a, memory |-> 0, cpus |-> 0, diskSize |-> 0]
ConsoleReq(n) ==
  [kind |-> "console", name |-> n, action |-> "", memory |-> 0, cpus |-> 0, diskSize |-> 0]
DatabasesReq ==
  [kind |-> "databases", name |-> "", action |-> "", memory |-> 0, cpus |-> 0, diskSize |-> 0]
UploadReq(f) ==
  [kind |-> "upload", name |-> f, action |-> "", memory |-> 0, cpus |-> 0, diskSize |-> 0]
LifecycleReq(n, a) ==
  [kind |-> "lifecycle", name |-> n, action |-> a, memory |-> 0, cpus |-> 0, diskSize |-> 0]

\* ------------------------------------------------------------ databases
\* GET /api/databases.  A line of output is the sequence of its columns:
\* a line holds '|' when it has more than one column.
MysqlOutputs ==
  { << <<"Database">>, <<"information_schema">>, <<"performance_schema">> >>,
    << <<"Database">>, <<"information_schema">>, <<"shop">> >>,
    << <<"Database">>, <<"information_schema">>, <<"shop">>, <<"blog">> >> }

PsqlOutputs ==
  { << <<"List of databases">>, <<"Name", "Owner">>, <<"-----+-----">>,
       <<"postgres", "postgres">>, <<"template0", "postgres">>,
       <<"template1", "postgres">>, <<"(3 rows)">> >>,
    << <<"List of databases">>, <<"Name", "Owner">>, <<"-----+-----">>,
       <<"postgres", "postgres">>, <<"shop", "app">>, <<"template0", "postgres">>,
       <<"template1", "postgres">>, <<"(4 rows)">> >> }

\* The words the MySQL filter drops a line for.
Dropped == {"Database", "information_schema", "performance_schema"}

RECURSIVE MapLines(_, _)
MapLines(lines, type) ==
  IF lines = <<>> THEN <<>>
  ELSE <<[name |-> Head(lines)[1], type |-> type]>> \o MapLines(Tail(lines), type)

\* mysqlStdout.split('\n').filter(...).map(db => ({ name, type: 'MySQL' }))
MysqlList(out) ==
  MapLines(SelectSeq(out, LAMBDA line : line # <<>> /\ line[1] \notin Dropped), "MySQL")

\* pgStdout.split('\n').filter(line => line.includes('|')).slice(1, -1).map(...)
PsqlList(out) ==
  LET rows == SelectSeq(out, LAMBDA line : Len(line) > 1) IN
    MapLines(SubSeq(rows, 2, Len(rows) - 1), "PostgreSQL")

DatabaseList(dbs) == [NoBody EXCEPT !.databases = dbs]

\* The handler issues the MySQL probe and returns.
StartDatabases(r) ==
  /\ req[r].kind = "databases"
  /\ pc[r] = "idle"
  /\ response[r] = "pending"
  /\ Goto(r, "mysql")
  /\ UNCHANGED <<req, host0, cmds, netAtEntry, host, copiedDuring, writes,
                 faultsLeft, faulted>>

\* Mysql going on to the PostgreSQL probe whatever the MySQL probe said.
MysqlThenPsql(r) ==
  /\ pc[r] = "mysql"
  /\ \E up \in BOOLEAN : \E ok \in Results(up), out \in MysqlOutputs :
       /\ Account(r, up, ok)
       /\ LogOut(r, "mysql", "mysql -e", NoPath, ok, IF ok THEN {out} ELSE {})
       /\ Goto(r, "psql")
  /\ UNCHANGED <<req, host0, netAtEntry, host, copiedDuring, writes>>

\* The callback of mysql -e "SHOW DATABASES;" 2>/dev/null.
Mysql(r) ==
  /\ pc[r] = "mysql"
  /\ \E up \in BOOLEAN : \E ok \in Results(up), out \in MysqlOutputs :
       /\ Account(r, up, ok)
       /\ LogOut(r, "mysql", "mysql -e", NoPath, ok, IF ok THEN {out} ELSE {})
       /\ IF ok THEN Respond(r, "ok", DatabaseList(MysqlList(out)))
          ELSE Goto(r, "psql")
  /\ UNCHANGED <<req, host0, netAtEntry, host, copiedDuring, writes>>

\* The callback of psql -l 2>/dev/null.
Psql(r) ==
  /\ pc[r] = "psql"
  /\ \E up \in BOOLEAN : \E ok \in Results(up), out \in PsqlOutputs :
       /\ Account(r, up, ok)
       /\ LogOut(r, "psql", "psql -l", NoPath, ok, IF ok THEN {out} ELSE {})
       /\ IF ok THEN Respond(r, "ok", DatabaseList(PsqlList(out)))
          ELSE Respond(r, "ok", DatabaseList(<<>>))
  /\ UNCHANGED <<req, host0, netAtEntry, host, copiedDuring, writes>>

\* --------------------------------------------------------------- upload
\* POST /api/files/upload.  upload.single('file') reads the parts of the
\* multipart body in the order they arrive: a field is stored in req.body
\* when its part is read, and the storage's destination and filename
\* callbacks run when the file part is read, before any later part.
Tmp == <<"/tmp">>
Paths == {<<"/home">>, <<"/srv/www">>}
FileNames == {"a.txt", "b.txt"}

FilePart(f) == [name |-> "file", value |-> <<f>>]
PathPart(p) == [name |-> "path", value |-> p]

\* uploadFile() of the dashboard: formData.append('file', ...) and then
\* formData.append('path', uploadPath).
uploadFile(f, p) == <<FilePart(f), PathPart(p)>>

\* The bodies a client can send: the dashboard's, the same parts in the
\* other order, and a body with no path field.
Bodies ==
  {uploadFile(f, p) : f \in FileNames, p \in Paths}
    \cup {<<PathPart(p), FilePart(f)>> : f \in FileNames, p \in Paths}
    \cup {<<FilePart(f)>> : f \in FileNames}

\* destination: req.body.path || '/tmp', with the fields read so far.
Destination(b) == IF b.path # NoPath THEN b.path ELSE Tmp

\* file.originalname: the name carried by the file part of a body.
OriginalName(b) ==
  (CHOOSE q \in {b[i] : i \in 1..Len(b)} : q.name = "file").value[1]

Uploaded(f) == [NoBody EXCEPT !.message = <<"File uploaded successfully">>, !.file = f]

\* The request reaches the upload middleware.
StartUpload(r) ==
  /\ req[r].kind = "upload"
  /\ pc[r] = "idle"
  /\ response[r] = "pending"
  /\ pc' = [pc EXCEPT ![r] = "parts"]
  /\ UNCHANGED <<req, host0, cmds, caller, response, body, fallbackCalls, fallbackArgs,
                 results, netAtEntry, host, copiedDuring, writes, faultsLeft, faulted,
                 sent, sock, extra>>

UploadFrame ==
  UNCHANGED <<req, host0, pc, cmds, caller, response, body, fallbackCalls, fallbackArgs,
              results, netAtEntry, host, copiedDuring, writes, faultsLeft, faulted,
              sent, sock, scan, ui>>

\* A field part is read: req.body[name] = value.
FieldPart(r) ==
  /\ pc[r] = "parts"
  /\ upload[r].parts # <<>>
  /\ Head(upload[r].parts).name = "path"
  /\ upload' = [upload EXCEPT ![r] =
                  [@ EXCEPT !.parts = Tail(@),
                            !.reqBody = [path |-> Head(upload[r].parts).value]]]
  /\ UploadFrame

\* The file part is read: destination(req, file, cb) makes the directory
\* and names it, filename() keeps the original name, and the file is
\* written there.
StoreFile(r) ==
  /\ pc[r] = "parts"
  /\ upload[r].parts # <<>>
  /\ Head(upload[r].parts).name = "file"
  /\ LET uploadPath == Destination(upload[r].reqBody) IN
       upload' = [upload EXCEPT ![r] =
                    [@ EXCEPT !.parts = Tail(@),
                              !.made = @ \cup {uploadPath},
                              !.file = [destination |-> uploadPath,
                                        filename |-> req[r].name]]]
  /\ UploadFrame

\* Every part is read: the route handler answers with req.file.
UploadAnswer(r) ==
  /\ pc[r] = "parts"
  /\ upload[r].parts = <<>>
  /\ Respond(r, "ok", Uploaded(upload[r].file))
  /\ UNCHANGED <<req, host0, cmds, netAtEntry, host, copiedDuring, writes,
                 faultsLeft, faulted>>

\* ------------------------------------------------------------ dashboard
\* public/script.js: the page that sent request r, once its fetch settles.
\* The promise of fetch resolves with any response the server sent,
\* whatever its status, and rejects only when no response arrives.

\* showAlert(type, message): one more alert on the page.
showAlert(u, type, message) ==
  [u EXCEPT !.alerts = Append(@, [type |-> type, message |-> message])]

\* loadVMs(): the VM table is fetched again.
loadVMs(u) == [u EXCEPT !.reloads = @ + 1]

\* hideCreateVmModal() and the form's reset().
hideCreateVmModal(u) == [u EXCEPT !.dialog = "closed"]
resetForm(u) == [u EXCEPT !.form = "reset"]

\* The fetch of request r has settled in way s.
Settle(r, s, u) ==
  /\ ui[r].settled = "no"
  /\ ui' = [ui EXCEPT ![r] = [u EXCEPT !.settled = s]]
  /\ UNCHANGED <<http, sock, scan, upload>>

\* controlVM's .then chain: response.json(), then the success alert with
\* data.message and a reload; response.ok and the status are not read.
controlVM(r) ==
  /\ req[r].kind = "lifecycle"
  /\ pc[r] = "done"
  /\ Settle(r, "resolved", loadVMs(showAlert(ui[r], "success", body[r].message)))

\* controlVM's .catch: no response arrived.
controlVMCatch(r) ==
  /\ req[r].kind = "lifecycle"
  /\ pc[r] # "idle"
  /\ Settle(r, "rejected", showAlert(ui[r], "error", <<"Failed to control VM">>))

\* deleteVM, after confirm(): the same chain.
deleteVM(r) ==
  /\ req[r].kind = "delete"
  /\ pc[r] = "done"
  /\ Settle(r, "resolved", loadVMs(showAlert(ui[r], "success", body[r].message)))

deleteVMCatch(r) ==
  /\ req[r].kind = "delete"
  /\ pc[r] # "idle"
  /\ Settle(r, "rejected", showAlert(ui[r], "error", <<"Failed to delete VM">>))

\* createVM's .then chain: the success alert, the dialog hidden, a reload
\* and the form reset.
createVM(r) ==
  /\ req[r].kind = "create"
  /\ pc[r] = "done"
  /\ Settle(r, "resolved",
            resetForm(loadVMs(hideCreateVmModal(
              showAlert(ui[r], "success", body[r].message)))))

\* createVM's .catch: the error of a fetch that got no response has no
\* details property.
createVMCatch(r) ==
  /\ req[r].kind = "create"
  /\ pc[r] # "idle"
  /\ Settle(r, "rejected", showAlert(ui[r], "error", <<"Failed to create VM">>))

\* A button of a VM row: the function its onclick calls and the action
\* argument it passes.
Button(handler, action) == [handler |-> handler, action |-> action]

\* getVmActionButtons offering start for a paused VM.
getVmActionButtonsStart(vmName, state) ==
  (CASE state = "running" ->
          <<Button("controlVM", "shutdown"), Button("controlVM", "suspend"),
            Button("openVmConsole", "")>>
     [] state = "shut off" -> <<Button("controlVM", "start")>>
     [] state = "paused" -> <<Button("controlVM", "start")>>
     [] OTHER -> <<>>)
    \o <<Button("deleteVM", "")>>

\* getVmActionButtons(vmName, state): the buttons by the state shown, then
\* Delete.  virsh domstate prints its states in lower case.
getVmActionButtons(vmName, state) ==
  (CASE state = "running" ->
          <<Button("controlVM", "shutdown"), Button("controlVM", "suspend"),
            Button("openVmConsole", "")>>
     [] state = "shut off" -> <<Button("controlVM", "start")>>
     [] state = "paused" -> <<Button("controlVM", "resume")>>
     [] OTHER -> <<>>)
    \o <<Button("deleteVM", "")>>

RECURSIVE VmItems(_)
VmItems(vms) ==
  IF vms = <<>> THEN <<>>
  ELSE <<[name |-> Head(vms).name, state |-> Head(vms).state,
          buttons |-> getVmActionButtons(Head(vms).name, Head(vms).state)]>>
         \o VmItems(Tail(vms))

\* updateVirtualizationStatus(virtualization)
updateVirtualizationStatus(u, virtualization) ==
  [u EXCEPT !.status = CASE virtualization = "kvm" -> "KVM/QEMU Available"
                         [] virtualization = "none" -> "No Virtualization"
                         [] OTHER -> "Unknown"]

\* loadVMs' .then chain: the status line, then displayVMs(data.vms), one
\* row per VM; an error body has no vms, displayVMs throws and the .catch
\* shows the alert.
displayVMs(r) ==
  /\ req[r].kind = "list"
  /\ pc[r] = "done"
  /\ Settle(r, "resolved",
            IF response[r] = "ok"
            THEN [updateVirtualizationStatus(ui[r], body[r].virtualization)
                    EXCEPT !.rows = VmItems(body[r].vms)]
            ELSE showAlert(updateVirtualizationStatus(ui[r], body[r].virtualization),
                           "error", <<"Failed to load VMs">>))

\* loadVMs' .catch: no response arrived.
loadVMsCatch(r) ==
  /\ req[r].kind = "list"
  /\ pc[r] # "idle"
  /\ Settle(r, "rejected", showAlert(ui[r], "error", <<"Failed to load VMs">>))

\* What every specification starts from: no request has begun.
InitServer ==
  /\ pc = [r \in Requests |-> "idle"]
  /\ caller = [r \in Requests |-> "none"]
  /\ cmds = [r \in Requests |-> <<>>]
  /\ response = [r \in Requests |-> "pending"]
  /\ body = [r \in Requests |-> NoBody]
  /\ fallbackCalls = [r \in Requests |-> 0]
  /\ fallbackArgs = [r \in Requests |-> NoArgs]
  /\ results = [r \in Requests |-> <<>>]
  /\ net \in NetStates
  /\ netAtEntry = [r \in Requests |-> net]
  /\ otherNet \in BOOLEAN
  /\ tmpNetXml = FALSE
  /\ baseImage \in {"absent", "partial", "complete"}
  /\ downloading = {}
  /\ copiedDuring = [r \in Requests |-> {}]
  /\ seed = [n \in Names |-> {}]
  /\ tmpVmXml = [n \in Names |-> FALSE]
  /\ writes = [r \in Requests |-> {}]
  /\ faulted = [r \in Requests |-> FALSE]
  /\ conn = [c \in Clients |-> "none"]
  /\ interval = [c \in Clients |-> FALSE]
  /\ ticks = [c \in Clients |-> 0]
  /\ ticksAtClose = [c \in Clients |-> 0]
  /\ inflight = [c \in Clients |-> {}]
  /\ emitted = [c \in Clients |-> <<>>]
  /\ sent = [r \in Requests |-> 0]
  /\ scan = [r \in Requests |-> NoScan]
  /\ ui = [r \in Requests |-> NoUi]

InitCommon ==
  /\ InitServer
  /\ upload = [r \in Requests |-> NoUpload]

EnsureNext(r) ==
  \/ NetList(r) \/ NetDefine(r) \/ NetRm(r) \/ NetStart(r)
  \/ AltAutostart(r) \/ AltStart(r)

CreateNext(r) ==
  \/ StartCreate(r) \/ MkdirImages(r) \/ WgetStart(r) \/ Wget(r) \/ Cp(r)
  \/ Resize(r) \/ MkdirSeed(r) \/ Genisoimage(r) \/ VirtInstall(r)
  \/ QemuCreate(r) \/ Define(r) \/ RmXml(r)

DeleteNext(r) ==
  \/ StartDelete(r) \/ Destroy(r) \/ Undefine(r) \/ RmDisk(r)

Snapshot == host0 = [net |-> net, baseImage |-> baseImage, vm |-> vm, disk |-> disk]

\* One create request and one delete request for the same name, on any
\* host, with any pattern of command failures.
Init ==
  /\ InitCommon
  /\ \E d \in DiskSizes : req = (1 :> CreateReq("web1", d)) @@ (2 :> DeleteReq("web1"))
  /\ \E s \in {"undefined", "shut off", "running"} :
       /\ vm = [n \in Names |-> IF n = "web1" THEN s ELSE "undefined"]
       /\ disk = [n \in Names |->
                    IF n = "web1" /\ s # "undefined"
                    THEN GuestDisk ELSE NoDisk]
  /\ faultsLeft = Unlimited
  /\ Snapshot

Next == \E r \in Requests : EnsureNext(r) \/ CreateNext(r) \/ DeleteNext(r)

Spec == Init /\ [][Next]_vars

\* Two direct callers of ensureDefaultNetwork.
InitNet ==
  /\ InitCommon
  /\ req = [r \in Requests |-> NetReq]
  /\ vm = [n \in Names |-> "undefined"]
  /\ disk = [n \in Names |-> NoDisk]
  /\ faultsLeft = Unlimited
  /\ Snapshot

NextNet == \E r \in Requests : CallEnsure(r) \/ EnsureNext(r)

SpecNet == InitNet /\ [][NextNet]_vars

\* Two concurrent create requests for different names.
InitRace ==
  /\ InitCommon
  /\ \E d \in DiskSizes : req = (1 :> CreateReq("web1", d)) @@ (2 :> CreateReq("web2", d))
  /\ vm = [n \in Names |-> "undefined"]
  /\ disk = [n \in Names |-> NoDisk]
  /\ faultsLeft = MaxFaults
  /\ Snapshot

NextRace == \E r \in Requests : EnsureNext(r) \/ CreateNext(r)

SpecRace == InitRace /\ [][NextRace]_vars

\* Two delete requests, for a defined domain or for "ghost", a name the
\* hypervisor has never heard of.
InitDelete ==
  /\ InitCommon
  /\ \E n1, n2 \in {"web1", "ghost"} : req = (1 :> DeleteReq(n1)) @@ (2 :> DeleteReq(n2))
  /\ \E s \in {"shut off", "running"} :
       vm = [n \in Names |-> IF n = "web1" THEN s ELSE "undefined"]
  /\ disk = [n \in Names |->
               IF n = "web1" THEN GuestDisk ELSE NoDisk]
  /\ faultsLeft = Unlimited
  /\ Snapshot

NextDelete == \E r \in Requests : DeleteNext(r)

SpecDelete == InitDelete /\ [][NextDelete]_vars

\* Two lifecycle requests with any action segment, for a defined domain
\* or for "ghost".
InitLifecycle ==
  /\ InitCommon
  /\ net = [defined |-> TRUE, active |-> TRUE, autostart |-> TRUE]
  /\ ~otherNet
  /\ baseImage = "complete"
  /\ \E a1, a2 \in validActions \cup OtherActions : \E n2 \in {"web1", "ghost"} :
       req = (1 :> LifecycleReq("web1", a1)) @@ (2 :> LifecycleReq(n2, a2))
  /\ \E s \in {"shut off", "running", "paused"} :
       vm = [n \in Names |-> IF n = "web1" THEN s ELSE "undefined"]
  /\ disk = [n \in Names |->
               IF n = "web1" THEN GuestDisk ELSE NoDisk]
  /\ faultsLeft = Unlimited
  /\ Snapshot

LifecycleNext(r) == StartLifecycle(r) \/ VirshAction(r)

NextLifecycle == \E r \in Requests : LifecycleNext(r)

SpecLifecycle == InitLifecycle /\ [][NextLifecycle]_vars

\* WebSocket clients that connect, receive metrics and disconnect, with no
\* HTTP request in progress.
InitSocket ==
  /\ InitCommon
  /\ net = [defined |-> TRUE, active |-> TRUE, autostart |-> TRUE]
  /\ ~otherNet
  /\ baseImage = "complete"
  /\ req = [r \in Requests |-> NetReq]
  /\ vm = [n \in Names |-> "undefined"]
  /\ disk = [n \in Names |-> NoDisk]
  /\ faultsLeft = Unlimited
  /\ Snapshot

SocketNext(c) ==
  \/ Connect(c) \/ Tick(c) \/ Disconnect(c)
  \/ \E k \in 1..MaxTicks : Collected(c, k)

NextSocket == \E c \in Clients : SocketNext(c)

SpecSocket == InitSocket /\ [][NextSocket]_vars

\* The same, where every collection settles: the promises of the metrics
\* library resolve or reject, and the event loop then runs the callback on.
SpecSocketFair ==
  /\ InitSocket
  /\ [][NextSocket]_vars
  /\ \A c \in Clients : \A k \in 1..MaxTicks : WF_vars(Collected(c, k))

\* A list request next to a delete request, on a host with up to three
\* domains, one of which has a name that contains the sentinel text.
InitList ==
  /\ InitCommon
  /\ net = [defined |-> TRUE, active |-> TRUE, autostart |-> TRUE]
  /\ ~otherNet
  /\ baseImage = "complete"
  /\ req = (1 :> ListReq) @@ (2 :> DeleteReq("web1"))
  /\ \E s1 \in {"undefined", "shut off", "running"}, s2 \in {"undefined", "running"},
        s3 \in {"undefined", "shut off"} :
       vm = [n \in Names |->
               CASE n = "web1" -> s1
                 [] n = "web2" -> s2
                 [] n = "lab KVM not available" -> s3
                 [] OTHER -> "undefined"]
  /\ disk = [n \in Names |->
               IF vm[n] # "undefined" THEN GuestDisk ELSE NoDisk]
  /\ faultsLeft = Unlimited
  /\ Snapshot

ListNext(r) == StartList(r) \/ VirshList(r) \/ Dominfo(r) \/ Domstate(r) \/ Domstats(r)

NextList == \E r \in Requests : ListNext(r) \/ DeleteNext(r)

SpecList == InitList /\ [][NextList]_vars

\* No VM request in progress and a host with no domain.
InitQuiet ==
  /\ InitCommon
  /\ net = [defined |-> TRUE, active |-> TRUE, autostart |-> TRUE]
  /\ ~otherNet
  /\ baseImage = "complete"
  /\ vm = [n \in Names |-> "undefined"]
  /\ disk = [n \in Names |-> NoDisk]
  /\ faultsLeft = Unlimited
  /\ Snapshot

\* Two service-control requests with any action segment, for names that
\* are plain identifiers.
InitService ==
  /\ InitQuiet
  /\ \E a1, a2 \in serviceActions \cup OtherActions : \E s1, s2 \in Services :
       req = (1 :> ServiceReq(s1, a1)) @@ (2 :> ServiceReq(s2, a2))

ServiceNext(r) == StartService(r) \/ Systemctl(r)

NextService == \E r \in Requests : ServiceNext(r)

SpecService == InitService /\ [][NextService]_vars

\* Service-control requests whose service name may carry a shell
\* metacharacter.
InitInject ==
  /\ InitQuiet
  /\ \E a1, a2 \in serviceActions \cup OtherActions :
     \E s1 \in HostileServices, s2 \in Services \cup HostileServices :
       req = (1 :> ServiceReq(s1, a1)) @@ (2 :> ServiceReq(s2, a2))

SpecInject == InitInject /\ [][NextService]_vars

\* Two console requests, for a running domain or for one that is not.
InitConsole ==
  /\ InitCommon
  /\ net = [defined |-> TRUE, active |-> TRUE, autostart |-> TRUE]
  /\ ~otherNet
  /\ baseImage = "complete"
  /\ \E n1, n2 \in {"web1", "web2", "ghost"} :
       req = (1 :> ConsoleReq(n1)) @@ (2 :> ConsoleReq(n2))
  /\ vm = [n \in Names |->
             CASE n = "web1" -> "running" [] n = "web2" -> "shut off" [] OTHER -> "undefined"]
  /\ disk = [n \in Names |-> IF vm[n] # "undefined" THEN GuestDisk ELSE NoDisk]
  /\ faultsLeft = Unlimited
  /\ Snapshot

ConsoleNext(r) == StartConsole(r) \/ VncDisplay(r) \/ Hostname(r)

NextConsole == \E r \in Requests : ConsoleNext(r)

SpecConsole == InitConsole /\ [][NextConsole]_vars

\* Two pages loading the VM table, on a host whose domains are in any of
\* the states virsh domstate can print.
InitButtons ==
  /\ InitCommon
  /\ net = [defined |-> TRUE, active |-> TRUE, autostart |-> TRUE]
  /\ ~otherNet
  /\ baseImage = "complete"
  /\ req = [r \in Requests |-> ListReq]
  /\ \E s1 \in {"running", "shut off", "paused", "crashed"},
        s2 \in {"undefined", "running", "paused"} :
       vm = [n \in Names |->
               CASE n = "web1" -> s1 [] n = "web2" -> s2 [] OTHER -> "undefined"]
  /\ disk = [n \in Names |-> IF vm[n] # "undefined" THEN GuestDisk ELSE NoDisk]
  /\ faultsLeft = MaxFaults
  /\ Snapshot

NextButtons == \E r \in Requests : ListNext(r) \/ displayVMs(r) \/ loadVMsCatch(r)

SpecButtons == InitButtons /\ [][NextButtons]_vars

\* Two requests for the database list.
InitDatabases ==
  /\ InitQuiet
  /\ req = [r \in Requests |-> DatabasesReq]

DatabasesNext(r) == StartDatabases(r) \/ Mysql(r) \/ Psql(r)

NextDatabases == \E r \in Requests : DatabasesNext(r)

SpecDatabases == InitDatabases /\ [][NextDatabases]_vars

\* Two uploads, each with one of the bodies a client can send.
InitUpload ==
  /\ InitServer
  /\ net = [defined |-> TRUE, active |-> TRUE, autostart |-> TRUE]
  /\ ~otherNet
  /\ baseImage = "complete"
  /\ vm = [n \in Names |-> "undefined"]
  /\ disk = [n \in Names |-> NoDisk]
  /\ faultsLeft = Unlimited
  /\ Snapshot
  /\ \E b1, b2 \in Bodies :
       /\ upload = [r \in Requests |->
                     [NoUpload EXCEPT !.sentParts = IF r = 1 THEN b1 ELSE b2,
                                      !.parts = IF r = 1 THEN b1 ELSE b2]]
       /\ req = [r \in Requests |-> UploadReq(OriginalName(IF r = 1 THEN b1 ELSE b2))]

UploadNext(r) == StartUpload(r) \/ FieldPart(r) \/ StoreFile(r) \/ UploadAnswer(r)

NextUpload == \E r \in Requests : UploadNext(r)

SpecUpload == InitUpload /\ [][NextUpload]_vars

\* One create request from the dashboard beside a delete or a lifecycle
\* request for a defined domain or for "ghost", each with its page.
InitDashboard ==
  /\ InitCommon
  /\ \E n \in {"web1", "ghost"} :
     \E q \in {DeleteReq(n)} \cup {LifecycleReq(n, a) : a \in {"start", "shutdown"}} :
       req = (1 :> CreateReq("web2", 10)) @@ (2 :> q)
  /\ \E s \in {"shut off", "running"} :
       vm = [n \in Names |-> IF n = "web1" THEN s ELSE "undefined"]
  /\ disk = [n \in Names |-> IF n = "web1" THEN GuestDisk ELSE NoDisk]
  /\ faultsLeft = MaxFaults
  /\ Snapshot

DashboardNext(r) ==
  \/ controlVM(r) \/ controlVMCatch(r)
  \/ deleteVM(r) \/ deleteVMCatch(r)
  \/ createVM(r) \/ createVMCatch(r)

NextDashboard ==
  \E r \in Requests :
    \/ EnsureNext(r) \/ CreateNext(r) \/ DeleteNext(r) \/ LifecycleNext(r)
    \/ DashboardNext(r)

SpecDashboard == InitDashboard /\ [][NextDashboard]_vars

\* ----------------------------------------------------------- properties
\* The program points that await an external command.
CommandSites ==
  {"net_list", "net_define", "net_rm", "net_start", "alt_autostart", "alt_start",
   "mkdir_images", "wget_start", "wget", "cp", "resize", "mkdir_seed",
   "genisoimage", "virt_install", "qemu_create", "define", "rm_xml",
   "destroy", "undefine", "rm_disk", "virsh_action",
   "virsh_list", "dominfo", "domstate", "domstats", "systemctl",
   "vncdisplay", "hostname", "mysql", "psql"}

\* The sites of the commands a request has issued, in order: those that
\* have run and the one it is waiting for.
Issued(r) ==
  [i \in 1..Len(cmds[r]) |-> cmds[r][i].site]
    \o (IF pc[r] \in CommandSites \ {"wget_start"} THEN <<pc[r]>>
        ELSE IF pc[r] = "wget_start" THEN <<"wget">> ELSE <<>>)

Count(r, site) == Cardinality({i \in 1..Len(cmds[r]) : cmds[r][i].site = site})

Creates == {r \in Requests : req[r].kind = "create"}
Deletes == {r \in Requests : req[r].kind = "delete"}

\* C1: in a create request every domain-definition command (virt-install
\* --import, virsh define) is issued after a disk-provisioning command of
\* its strategy (cp, qemu-img create) has run for that VM's disk path.
C1_DiskBeforeDomain ==
  \A r \in Creates :
    \A i \in 1..Len(Issued(r)) :
      /\ Issued(r)[i] = "virt_install" =>
           \E j \in 1..(i - 1) :
             /\ cmds[r][j].site = "cp"
             /\ cmds[r][j].path = VmPath(req[r].name)
      /\ Issued(r)[i] = "define" =>
           \E j \in 1..(i - 1) :
             /\ cmds[r][j].site = "qemu_create"
             /\ cmds[r][j].path = VmPath(req[r].name)

\* A create request whose cloud-image strategy failed and whose fallback
\* define, issued after qemu-img create, was accepted.
C1_Witness ==
  \E r \in Creates :
    /\ \E i \in 1..Len(cmds[r]) : cmds[r][i].phase = "cloud" /\ ~cmds[r][i].ok
    /\ \E i \in 1..Len(cmds[r]) : cmds[r][i].site = "define" /\ cmds[r][i].ok
    /\ response[r] = "ok"

\* A step of the cloud-image strategy failed: a command of
\* createVMWithCloudImage itself, or ensureDefaultNetwork as a whole (its
\* alternative setup failed; what its own try block catches is no failure
\* of the step).
PrimaryStepFailed(r) ==
  \E i \in 1..Len(cmds[r]) :
    /\ cmds[r][i].phase = "cloud"
    /\ ~cmds[r][i].ok
    /\ cmds[r][i].site \notin {"net_list", "net_define", "net_rm", "net_start"}

RequestArgs(r) ==
  [name |-> req[r].name, memory |-> req[r].memory, cpus |-> req[r].cpus,
   diskSize |-> req[r].diskSize, vmPath |-> VmPath(req[r].name)]

\* C2: the fallback strategy is invoked exactly once, with the request's
\* name, memory, cpus, disk size and disk path, if a step of the primary
\* strategy failed, and never otherwise.
C2_FallbackOnce ==
  \A r \in Creates :
    /\ PrimaryStepFailed(r) => fallbackCalls[r] = 1 /\ fallbackArgs[r] = RequestArgs(r)
    /\ ~PrimaryStepFailed(r) => fallbackCalls[r] = 0 /\ fallbackArgs[r] = NoArgs

\* A create request answered after its resize failed and the fallback was
\* invoked.
C2_Witness ==
  \E r \in Creates :
    /\ pc[r] = "done"
    /\ \E i \in 1..Len(cmds[r]) : cmds[r][i].site = "resize" /\ ~cmds[r][i].ok
    /\ fallbackCalls[r] = 1
    /\ fallbackArgs[r] = RequestArgs(r)

\* C3 as claimed: creating "web1" (1024 MB, 1 cpu, 20 GB) where the base
\* image exists and the network "default" is defined and active, every
\* command answering as the host does, issues exactly one copy, one resize,
\* one ISO build and one import, no fallback command, and succeeds.
C3_Claim ==
  ( /\ req[1] = CreateReq("web1", 20)
    /\ host0.baseImage = "complete"
    /\ host0.net.defined /\ host0.net.active
    /\ host0.vm["web1"] = "undefined"
    /\ pc[2] = "idle"
    /\ ~faulted[1]
    /\ pc[1] = "done" )
  => /\ response[1] = "ok"
     /\ Count(1, "cp") = 1 /\ Count(1, "resize") = 1
     /\ Count(1, "genisoimage") = 1 /\ Count(1, "virt_install") = 1
     /\ fallbackCalls[1] = 0

Nets == {r \in Requests : req[r].kind = "net"}

\* The listing printed a name that contains "default".
ContainsDefault(out) == \E n \in out : \E i \in 1..Len(n) : n[i] = "default"

\* The call of r began with a listing that succeeded.
Listed(r) == Len(cmds[r]) >= 1 /\ cmds[r][1].site = "net_list" /\ cmds[r][1].ok

\* The sites a request issued after its i-th command.
After(r, i) == SubSeq(Issued(r), i + 1, Len(Issued(r)))

IsPrefix(s, t) == Len(s) <= Len(t) /\ \A i \in 1..Len(s) : s[i] = t[i]

DefineOnlyWhenUnlisted(r) ==
  (\E i \in 1..Len(Issued(r)) : Issued(r)[i] = "net_define")
    => Listed(r) /\ ~ContainsDefault(cmds[r][1].out)

\* C4 as claimed: net-define is issued only when the listing does not
\* contain "default"; when it does, the call issues besides the listing at
\* most one net-start and nothing else, whatever that start's result.
C4_Original ==
  \A r \in Nets :
    /\ DefineOnlyWhenUnlisted(r)
    /\ (Listed(r) /\ ContainsDefault(cmds[r][1].out)) =>
         /\ Len(After(r, 1)) <= 1
         /\ \A i \in 1..Len(After(r, 1)) : After(r, 1)[i] \in {"net_start", "alt_start"}

\* C4 amended: net-define is issued only when the listing does not contain
\* "default"; when it does, the call issues one net-start and, only if that
\* start fails, one net-autostart followed, only if the autostart
\* succeeded, by a second net-start; nothing else.
C4_Amended ==
  \A r \in Nets :
    /\ DefineOnlyWhenUnlisted(r)
    /\ (Listed(r) /\ ContainsDefault(cmds[r][1].out)) =>
         /\ IsPrefix(After(r, 1), <<"net_start", "alt_autostart", "alt_start">>)
         /\ Len(Issued(r)) >= 3 => ~cmds[r][2].ok
         /\ Len(Issued(r)) >= 4 => cmds[r][3].ok

\* A call that found "default" listed and has run its second net-start.
C4_Witness ==
  \E r \in Nets :
    /\ Listed(r) /\ ContainsDefault(cmds[r][1].out)
    /\ Len(cmds[r]) = 4
    /\ cmds[r][4].site = "alt_start"

\* C5 as claimed: a second call right after a successful first call, with
\* every command answering as the host does, returns without throwing,
\* issues no net-start and leaves the network as it found it.
C5_Claim ==
  \A r \in Nets :
    ( /\ Len(results[r]) = 2
      /\ results[r][1] = "returned"
      /\ pc[r] = "idle"
      /\ ~faulted[r]
      /\ \A q \in Nets \ {r} : results[q] = <<>> /\ pc[q] = "idle" )
    => /\ results[r][2] = "returned"
       /\ \A i \in 1..Len(cmds[r]) : cmds[r][i].cmd # "virsh net-start"
       /\ net = netAtEntry[r]

\* C6 as claimed: a call that finds no "default" listed and whose commands
\* all succeed issues net-define, net-start and net-autostart and leaves
\* the network defined, active and marked autostart.
C6_Claim ==
  \A r \in Nets :
    ( /\ pc[r] = "idle"
      /\ Len(results[r]) >= 1
      /\ Listed(r) /\ ~ContainsDefault(cmds[r][1].out)
      /\ \A i \in 1..Len(cmds[r]) : cmds[r][i].ok )
    => /\ \A c \in {"virsh net-define", "virsh net-start", "virsh net-autostart"} :
            \E i \in 1..Len(cmds[r]) : cmds[r][i].cmd = c
       /\ net.defined /\ net.active /\ net.autostart

OwnPaths(n) ==
  {VmPath(n), CloudInitDir(n), UserData(n), MetaData(n), CloudInitIso(n), XmlFile(n)}

\* C7 as claimed: two create requests for different names, on a host with
\* the base image and the network "default" defined, every command
\* answering as the host does, both succeed and each writes only the files
\* of its own name.
C7_Claim ==
  ( /\ host0.baseImage = "complete"
    /\ host0.net.defined
    /\ \A r \in Creates : pc[r] = "done" /\ ~faulted[r] )
  => \A r \in Creates :
       /\ response[r] = "ok"
       /\ writes[r] \subseteq OwnPaths(req[r].name)

\* Both calls saw "default" missing and issued net-define; the one of q was
\* accepted and the one of r, at position i of its log, failed.
LostDefineRace(r, q, i) ==
  /\ q # r
  /\ Listed(r) /\ ~ContainsDefault(cmds[r][1].out)
  /\ Listed(q) /\ ~ContainsDefault(cmds[q][1].out)
  /\ i \in 1..Len(cmds[r]) /\ cmds[r][i].site = "net_define" /\ ~cmds[r][i].ok
  /\ \E j \in 1..Len(cmds[q]) : cmds[q][j].site = "net_define" /\ cmds[q][j].ok

\* C8 as claimed: the call whose net-define failed issues after the failure
\* a net-start and no other command.
C8_Original ==
  \A r \in Nets : \A q \in Nets : \A i \in 1..Len(cmds[r]) :
    LostDefineRace(r, q, i) =>
      /\ Len(After(r, i)) <= 1
      /\ \A k \in 1..Len(After(r, i)) : After(r, i)[k] \in {"net_start", "alt_start"}

\* C8 amended: the failure is caught inside the call, which then issues
\* net-autostart and, only if the autostart succeeded, net-start, and no
\* other command.
C8_Amended ==
  \A r \in Nets : \A q \in Nets : \A i \in 1..Len(cmds[r]) :
    LostDefineRace(r, q, i) =>
      /\ IsPrefix(After(r, i), <<"alt_autostart", "alt_start">>)
      /\ Len(After(r, i)) = 2 => cmds[r][i + 1].ok
      /\ pc[r] = "idle" => Len(After(r, i)) >= 1

\* The loser of the define race has run its net-start.
C8_Witness ==
  \E r \in Nets : \E q \in Nets : \E i \in 1..Len(cmds[r]) :
    /\ LostDefineRace(r, q, i)
    /\ Len(cmds[r]) = i + 2
    /\ cmds[r][i + 2].site = "alt_start"

\* C9 speaks of a state: two create requests that both found the base
\* image absent have both issued the download, and one has copied the file
\* while the other's download was still writing it.
BootstrapRace ==
  \E p \in Creates : \E q \in Creates \ {p} :
    /\ host0.baseImage = "absent"
    /\ \E i \in 1..Len(cmds[p]) : cmds[p][i].site = "wget" /\ cmds[p][i].path = CloudImage
    /\ \E i \in 1..Len(Issued(q)) : Issued(q)[i] = "wget"
    /\ \E i \in 1..Len(cmds[p]) : cmds[p][i].site = "cp" /\ cmds[p][i].ok
    /\ q \in copiedDuring[p]

\* The requests that have got past ensureDefaultNetwork in the cloud-image
\* strategy.
PastNetwork(r) ==
  \E i \in 1..Len(Issued(r)) :
    Issued(r)[i] \in {"wget", "cp", "resize", "mkdir_seed", "genisoimage", "virt_install"}

\* No run reaches that state: ensureDefaultNetwork returns only after a
\* net-start that succeeded, the network is started once, so at most one
\* create request ever gets as far as the download.
NoBootstrapRace ==
  /\ ~BootstrapRace
  /\ Cardinality({r \in Creates : PastNetwork(r)}) <= 1
  /\ Cardinality(downloading) <= 1

\* C10 as claimed: every delete request issues force-stop, undefine and
\* disk removal, each of them, in that order, whatever the earlier results.
C10_Original ==
  \A r \in Deletes :
    pc[r] = "done" => Issued(r) = <<"destroy", "undefine", "rm_disk">>

\* C10 amended: a delete request issues force-stop first and then undefine,
\* whatever the force-stop's result; disk removal is issued after the
\* undefine and only if the undefine succeeded.
C10_Amended ==
  \A r \in Deletes :
    /\ IsPrefix(Issued(r), <<"destroy", "undefine", "rm_disk">>)
    /\ pc[r] = "done" =>
         /\ Len(Issued(r)) >= 2
         /\ Len(Issued(r)) = 3 <=> cmds[r][2].ok

\* A delete whose force-stop failed and which went on to undefine and to
\* remove the disk.
C10_Witness ==
  \E r \in Deletes :
    /\ pc[r] = "done"
    /\ Len(cmds[r]) = 3
    /\ ~cmds[r][1].ok
    /\ cmds[r][3].site = "rm_disk"

\* The commands of a site that have run for a request, and their outcome.
Ran(r, site) == \E i \in 1..Len(cmds[r]) : cmds[r][i].site = site
Accepted(r, site) == \E i \in 1..Len(cmds[r]) : cmds[r][i].site = site /\ cmds[r][i].ok
Refused(r, site) == \E i \in 1..Len(cmds[r]) : cmds[r][i].site = site /\ ~cmds[r][i].ok

\* C11: a delete request answers success exactly when its undefine command
\* succeeded: a failed force-stop and a failed removal of the disk image
\* are both swallowed, a failed undefine is answered as an error.
C11_Claim ==
  \A r \in Deletes :
    pc[r] = "done" => (response[r] = "ok" <=> Accepted(r, "undefine"))

\* Delete requests for the name the hypervisor does not know.
Ghosts == {r \in Deletes : req[r].name = "ghost"}

\* The commands of a delete request for "ghost" that is answered: the
\* force-stop failed and was ignored, the undefine was issued and failed.
GhostRun(r) ==
  /\ response[r] = "error"
  /\ [i \in 1..Len(cmds[r]) |-> <<cmds[r][i].cmd, cmds[r][i].ok>>]
       = <<(<<"virsh destroy", FALSE>>), (<<"virsh undefine", FALSE>>)>>

\* C12 as stated: a delete of the undefined name "ghost" issues the
\* force-stop, ignores its failure, issues the undefine, and answers with
\* an error text that is exactly what the failed undefine wrote on its
\* standard error.
C12_Original ==
  \A r \in Ghosts :
    pc[r] = "done" =>
      /\ GhostRun(r)
      /\ body[r].error = <<"stderr of ", "virsh undefine", "ghost">>

\* C12: a delete of the undefined name "ghost" issues the force-stop,
\* ignores its failure, issues the undefine, and answers with the message
\* of the undefine's rejection: "Command failed: ", the command line, a
\* line break, and then what the command wrote on its standard error.
C12_Amended ==
  \A r \in Ghosts :
    pc[r] = "done" =>
      /\ GhostRun(r)
      /\ body[r].error = <<"Command failed: ", "virsh undefine", "ghost", "\n",
                           "stderr of ", "virsh undefine", "ghost">>

\* A delete request for "ghost" has been answered.
C12_Witness == \E r \in Ghosts : pc[r] = "done" /\ Refused(r, "undefine")

Lifecycles == {r \in Requests : req[r].kind = "lifecycle"}

\* C13: a lifecycle request whose action is not one of start, stop,
\* shutdown, reboot, suspend, resume is rejected (400) before any external
\* command is issued, whatever the VM name.
C13_InvalidRejected ==
  \A r \in Lifecycles :
    req[r].action \notin {"start", "stop", "shutdown", "reboot", "suspend", "resume"} =>
      /\ Issued(r) = <<>>
      /\ pc[r] \in {"idle", "done"}
      /\ pc[r] = "done" => response[r] = "invalid" /\ body[r] = Invalid

\* Both requests carried an action outside the list, one of them for the
\* undefined name, and both have been answered.
C13_Witness ==
  /\ \A r \in Lifecycles : req[r].action \in OtherActions /\ pc[r] = "done"
  /\ \E r \in Lifecycles : req[r].name = "ghost"

\* C14: a lifecycle request with a valid action issues exactly one external
\* command, virsh <action> <name>, with no query before it, and answers
\* success exactly when that command exited 0 and its standard error is
\* empty or contains "Domain", "started" or "stopped"; otherwise an error.
C14_OneCommand ==
  \A r \in Lifecycles :
    req[r].action \in {"start", "stop", "shutdown", "reboot", "suspend", "resume"} =>
      /\ pc[r] # "idle" => Issued(r) = <<"virsh_action">>
      /\ pc[r] = "done" =>
           /\ Len(cmds[r]) = 1
           /\ cmds[r][1].cmd = "virsh"
           /\ cmds[r][1].path = <<req[r].action, req[r].name>>
           /\ response[r] \in {"ok", "error"}
           /\ response[r] = "ok" <=>
                /\ cmds[r][1].ok
                /\ \/ cmds[r][1].out = <<>>
                   \/ \E i \in 1..Len(cmds[r][1].out) :
                        cmds[r][1].out[i] \in {"Domain", "started", "stopped"}

\* A command that exited 0 with a tolerated text on its standard error was
\* answered as a success, and one that exited 0 with another text as an
\* error.
C14_Witness ==
  /\ \E r \in Lifecycles :
       /\ pc[r] = "done" /\ response[r] = "ok"
       /\ cmds[r][1].out = <<"already ", "started">>
  /\ \E r \in Lifecycles :
       /\ pc[r] = "done" /\ response[r] = "error"
       /\ cmds[r][1].ok /\ cmds[r][1].out = <<"libvirt: ", "connection reset">>

\* C15: a create request answers success exactly when the hypervisor
\* accepted a domain-definition command (virt-install --import or virsh
\* define) of that request; a failed removal of the temporary XML file
\* after an accepted definition does not turn the answer into an error.
C15_Claim ==
  \A r \in Creates :
    pc[r] = "done" =>
      (response[r] = "ok" <=> (Accepted(r, "virt_install") \/ Accepted(r, "define")))

\* C16: whenever a create request ends in an error, the failure was a
\* shell command's non-zero exit and the response carries what that
\* command wrote on its standard error, also when the step that failed is
\* the setup of the default network.
C16_Claim ==
  \A r \in Creates :
    (pc[r] = "done" /\ response[r] = "error") =>
      /\ cmds[r] # <<>>
      /\ ~LastCmd(r).ok
      /\ body[r].details = <<"stderr of ", LastCmd(r).cmd>> \o LastCmd(r).path

\* The content the last successful cp of a request put into its disk image.
Copied(r) ==
  LET i == CHOOSE i \in 1..Len(cmds[r]) :
             /\ cmds[r][i].site = "cp" /\ cmds[r][i].ok
             /\ \A j \in (i + 1)..Len(cmds[r]) : cmds[r][j].site # "cp"
  IN CHOOSE c \in cmds[r][i].out : TRUE

\* No delete request has removed the disk image of that name.
NotDeleted(n) == \A d \in Deletes : req[d].name = n => ~Accepted(d, "rm_disk")

\* C17: a create request cleans nothing up: when its copy and its resize
\* succeeded and the import then failed, the per-VM disk image is, when
\* the request is answered, still there with the copied content and the
\* requested size (no delete request having removed it).
C17_DiskKept ==
  \A r \in Creates :
    ( /\ pc[r] = "done"
      /\ Accepted(r, "cp") /\ Accepted(r, "resize") /\ Refused(r, "virt_install")
      /\ NotDeleted(req[r].name) ) =>
        disk[req[r].name] = [content |-> Copied(r), size |-> req[r].diskSize]

\* The import failed after a copy and a resize, and the request has been
\* answered after its fallback.
C17_Witness ==
  \E r \in Creates :
    /\ pc[r] = "done" /\ fallbackCalls[r] = 1
    /\ Accepted(r, "cp") /\ Accepted(r, "resize") /\ Refused(r, "virt_install")
    /\ NotDeleted(req[r].name)
    /\ DiskExists(req[r].name)

\* The pairs of runs of one command line in a request of which the earlier
\* failed: the later is the same command issued again after a failure.
Reissued(r) ==
  {p \in (1..Len(cmds[r])) \X (1..Len(cmds[r])) :
     /\ p[1] < p[2]
     /\ cmds[r][p[1]].cmd = cmds[r][p[2]].cmd
     /\ cmds[r][p[1]].path = cmds[r][p[2]].path
     /\ ~cmds[r][p[1]].ok}

NetStarts(r) == Cardinality({i \in 1..Len(cmds[r]) : cmds[r][i].cmd = "virsh net-start"})

\* C18 as stated: within a request no external command is issued again
\* after an earlier issue of the same command failed, and a create request
\* issues virsh net-start default at most once.
C18_Original ==
  \A r \in Requests :
    /\ Reissued(r) = {}
    /\ r \in Creates => NetStarts(r) <= 1

\* C18: within a request no external command is issued again after an
\* earlier issue of the same command failed, except in the default-network
\* setup: the catch of ensureDefaultNetwork issues virsh net-start default
\* again after the first start failed, and the fallback strategy runs the
\* setup's commands again after the cloud-image strategy's; a create
\* request issues virsh net-start default at most four times.
C18_Amended ==
  \A r \in Requests :
    /\ \A p \in Reissued(r) :
         /\ cmds[r][p[1]].site \in
              {"net_list", "net_define", "net_rm", "net_start", "alt_autostart", "alt_start"}
         /\ \/ /\ cmds[r][p[1]].site = "net_start" /\ cmds[r][p[2]].site = "alt_start"
               /\ cmds[r][p[1]].phase = cmds[r][p[2]].phase
            \/ cmds[r][p[1]].phase = "cloud" /\ cmds[r][p[2]].phase = "simple"
    /\ r \in Creates => NetStarts(r) <= 4

\* A create request has issued virsh net-start default four times, each
\* of them failing.
C18_Witness ==
  \E r \in Creates :
    /\ pc[r] = "done"
    /\ NetStarts(r) = 4
    /\ \A i \in 1..Len(cmds[r]) : cmds[r][i].cmd = "virsh net-start" => ~cmds[r][i].ok

\* The events given to a client's socket after its disconnect was handled.
LateEvents(c) == {i \in 1..Len(emitted[c]) : emitted[c][i].state = "disconnected"}

\* C19: once a client's disconnect has been handled, no systemUpdate or
\* error event is emitted on its socket any more, not even by a collection
\* that was started before the disconnect.
C19_Claim == \A c \in Clients : LateEvents(c) = {}

\* What does hold after a disconnect: the timer starts no further callback,
\* and every event emitted afterwards is the single one of a callback that
\* was started before.
NoTickAfterDisconnect ==
  \A c \in Clients :
    /\ conn[c] = "disconnected" => ticks[c] = ticksAtClose[c] /\ ~interval[c]
    /\ \A i \in LateEvents(c) :
         /\ emitted[c][i].tick <= ticksAtClose[c]
         /\ \A j \in 1..Len(emitted[c]) : j # i => emitted[c][j].tick # emitted[c][i].tick

\* The callbacks of a client whose event has been emitted.
Answered(c) == {emitted[c][i].tick : i \in 1..Len(emitted[c])}

\* One live timer per connected client, and none for any other.
TimersMatchClients ==
  /\ \A c \in Clients : interval[c] <=> conn[c] = "connected"
  /\ Cardinality({c \in Clients : interval[c]})
       = Cardinality({c \in Clients : conn[c] = "connected"})

\* Every callback started is waiting or has emitted exactly one event, of
\* the kind its collection's outcome calls for.
OneEventPerTick ==
  \A c \in Clients :
    /\ Answered(c) \cup inflight[c] = 1..ticks[c]
    /\ Answered(c) \cap inflight[c] = {}
    /\ Cardinality(Answered(c)) = Len(emitted[c])
    /\ \A i \in 1..Len(emitted[c]) :
         emitted[c][i].event = (IF emitted[c][i].ok THEN "systemUpdate" ELSE "error")

\* C20: in every reachable state the live metrics timers are exactly those
\* of the connected clients, one each; every timer tick leads to exactly
\* one event emitted to its client, systemUpdate when the collection
\* succeeded and error when it failed; and a failed collection leaves the
\* timer of a connected client running.
C20_TimersAndEvents ==
  /\ [](TimersMatchClients /\ OneEventPerTick)
  /\ \A c \in Clients : \A k \in 1..MaxTicks :
       (ticks[c] >= k) ~> (k \in Answered(c))

\* A connected client whose first collection failed and emitted error, and
\* whose timer went on to a second tick that emitted systemUpdate, while
\* another client has disconnected.
C20_Witness ==
  /\ \E c \in Clients :
       /\ conn[c] = "connected" /\ interval[c]
       /\ \E i, j \in 1..Len(emitted[c]) :
            /\ emitted[c][i].tick = 1 /\ emitted[c][i].event = "error"
            /\ emitted[c][j].tick = 2 /\ emitted[c][j].event = "systemUpdate"
  /\ \E c \in Clients : conn[c] = "disconnected" /\ ~interval[c]

Lists == {r \in Requests : req[r].kind = "list"}

\* A per-VM query of a list request for the name n succeeded.
Queried(r, site, n) ==
  \E i \in 1..Len(cmds[r]) :
    cmds[r][i].site = site /\ cmds[r][i].path = <<n>> /\ cmds[r][i].ok

\* The names a list request's answer must carry: those listed, in the
\* order listed, whose dominfo and domstate queries both succeeded.
Described(r) ==
  SelectSeq(cmds[r][1].out,
            LAMBDA n : Queried(r, "dominfo", n) /\ Queried(r, "domstate", n))

\* The answer of a list request: "none" and nothing else done when none
\* holds, "kvm" with the described names otherwise; never an error.
ListAnswer(r, none) ==
  /\ response[r] = "ok" /\ sent[r] = 1
  /\ IF none
     THEN /\ body[r].virtualization = "none" /\ body[r].vms = <<>>
          /\ Len(cmds[r]) = 1
     ELSE /\ body[r].virtualization = "kvm"
          /\ [i \in 1..Len(body[r].vms) |-> body[r].vms[i].name] = Described(r)

\* C21 as stated: a list request reports "none" with no VM and no per-VM
\* command exactly when the name-list command failed; otherwise "kvm" with
\* one entry, in list order, per listed name whose dominfo and domstate
\* both succeeded, the others being omitted without failing the request.
C21_Original ==
  \A r \in Lists : pc[r] = "done" => ListAnswer(r, ~cmds[r][1].ok)

\* C21: a list request reports "none" with no VM and no per-VM command
\* exactly when the output of the name-list command contains the text
\* "KVM not available", which it does when the command failed and also
\* when a listed name contains that text; otherwise "kvm" with one entry,
\* in list order, per listed name whose dominfo and domstate both
\* succeeded, the others being omitted without failing the request.
C21_Amended ==
  \A r \in Lists :
    pc[r] = "done" =>
      ListAnswer(r, \/ ~cmds[r][1].ok
                    \/ \E i \in 1..Len(cmds[r][1].out) :
                         cmds[r][1].out[i] = "lab KVM not available")

\* A list answered "kvm" that left out web1, deleted after the listing,
\* and kept web2; and the hypervisor lists no name with the sentinel text.
C21_Witness ==
  \E r \in Lists :
    /\ pc[r] = "done"
    /\ cmds[r][1].out = <<"web1", "web2">>
    /\ ~Queried(r, "dominfo", "web1")
    /\ \E d \in Deletes : Accepted(d, "undefine") /\ ~faulted[r]
    /\ Described(r) = <<"web2">>
    /\ body[r].virtualization = "kvm"

ServiceReqs == {r \in Requests : req[r].kind = "service"}

\* C22: a service-control request whose action is not start, stop, restart
\* or reload is rejected (400) before any external command is issued; with
\* a valid action exactly one systemctl command is issued and the response
\* is success exactly when that command exited 0.
C22_ServiceControl ==
  \A r \in ServiceReqs :
    IF req[r].action \notin {"start", "stop", "restart", "reload"}
    THEN /\ Issued(r) = <<>>
         /\ pc[r] \in {"idle", "done"}
         /\ pc[r] = "done" => response[r] = "invalid" /\ body[r] = Invalid
    ELSE /\ pc[r] # "idle" => Issued(r) = <<"systemctl">>
         /\ pc[r] = "done" =>
              /\ Len(cmds[r]) = 1
              /\ cmds[r][1].out =
                   <<[program |-> <<"systemctl", req[r].action, req[r].name>>,
                      ok |-> response[r] = "ok"]>>
              /\ response[r] \in {"ok", "error"}
              /\ sent[r] = 1

\* One request was rejected for its action, the other ran systemctl, which
\* failed, and was answered with an error.
C22_Witness ==
  /\ \E r \in ServiceReqs :
       pc[r] = "done" /\ response[r] = "invalid" /\ req[r].name = "nginx"
  /\ \E r \in ServiceReqs :
       pc[r] = "done" /\ response[r] = "error" /\ Refused(r, "systemctl")

\* The values of a request that are pasted into a shell command.
Pasted(r) == {req[r].name}

\* C23: a request whose value pasted into a shell command is not a plain
\* identifier or path (it carries a shell metacharacter) is rejected before
\* any external command is issued, so that no program is ever run because
\* of such a value.
C23_Claim ==
  \A r \in ServiceReqs :
    (\E v \in Pasted(r) : \E i \in 1..Len(ShellWords(v)) : ShellWords(v)[i] = ";") =>
      /\ Issued(r) = <<>>
      /\ pc[r] = "done" => response[r] = "invalid"

\* No delete request has begun.
NoDelete == \A d \in Deletes : pc[d] = "idle"

\* C24: a create request for the name of a domain the hypervisor already
\* has ends in an error response and leaves that domain's disk image file
\* and its definition as they were.
C24_Claim ==
  \A r \in Creates :
    (pc[r] = "done" /\ host0.vm[req[r].name] # "undefined" /\ NoDelete) =>
      /\ response[r] = "error"
      /\ vm[req[r].name] = host0.vm[req[r].name]
      /\ disk[req[r].name] = host0.disk[req[r].name]

\* A create through the cloud-image strategy succeeded for a name that was
\* free, and a delete of that name then succeeded: the domain the create
\* made is gone again.
RoundTrip(c, d) ==
  /\ req[c].name = req[d].name
  /\ pc[c] = "done" /\ response[c] = "ok" /\ Accepted(c, "virt_install")
  /\ pc[d] = "done" /\ response[d] = "ok"
  /\ host0.vm[req[c].name] = "undefined"
  /\ vm[req[c].name] = "undefined"

\* C25: after a successful create through the cloud-image strategy and a
\* successful delete of the same name, none of that VM's artifacts is left:
\* not its disk image, not its cloud-init directory with user-data and
\* meta-data, not its seed ISO.
C25_Claim ==
  \A c \in Creates : \A d \in Deletes :
    RoundTrip(c, d) => disk[req[c].name] = NoDisk /\ seed[req[c].name] = {}

Consoles == {r \in Requests : req[r].kind = "console"}

\* The display a console request read from virsh vncdisplay.
DisplayRead(r) == CHOOSE d \in cmds[r][1].out : TRUE

\* C26: for a VM whose display is :N the console endpoint answers with a
\* vncPort, a consoleUrl and a webConsoleUrl that all use TCP port
\* 5900 + N (5900 for display :0), the port the repository's VNC port
\* script computes for that display.
C26_Claim ==
  \A r \in Consoles :
    (pc[r] = "done" /\ response[r] = "ok") =>
      /\ body[r].console.vncPort = 5900 + DisplayRead(r).num
      /\ body[r].console.consoleUrl.port = 5900 + DisplayRead(r).num
      /\ body[r].console.webConsoleUrl.port = 5900 + DisplayRead(r).num
      /\ body[r].console.vncPort = ScriptPort(DisplayRead(r))
\* The requests the dashboard sends for a VM operation.
VmOperations == Creates \cup Deletes \cup Lifecycles

\* C27: when the server answers a VM lifecycle, delete or create request
\* with an error status, the page that sent it shows exactly an error alert
\* carrying the server's error text, shows no success alert, and keeps the
\* create dialog open and the create form filled.
C27_Claim ==
  \A r \in VmOperations :
    (ui[r].settled = "resolved" /\ response[r] \in {"error", "invalid"}) =>
      /\ \E i \in 1..Len(ui[r].alerts) :
           /\ ui[r].alerts[i].type = "error"
           /\ ui[r].alerts[i].message = body[r].error
      /\ \A i \in 1..Len(ui[r].alerts) : ui[r].alerts[i].type # "success"
      /\ ui[r].dialog = "open"
      /\ ui[r].form = "filled"

\* The upload requests, and the path fields a request's body carries.
Uploads == {r \in Requests : req[r].kind = "upload"}
PathFields(r) ==
  {upload[r].sentParts[i].value :
     i \in {k \in 1..Len(upload[r].sentParts) : upload[r].sentParts[k].name = "path"}}

\* C28: an uploaded file is stored in the directory the request's path
\* field names, whatever the order of the parts of the body, and /tmp is
\* the destination only of a request that carries no path field.
C28_Claim ==
  \A r \in Uploads :
    upload[r].file # NoFile =>
      /\ PathFields(r) # {} => upload[r].file.destination \in PathFields(r)
      /\ upload[r].file.destination = Tmp => PathFields(r) = {}

\* The requests for the database list, and what a probe of one printed.
Listers == {r \in Requests : req[r].kind = "databases"}
Types(r) == {body[r].databases[i].type : i \in 1..Len(body[r].databases)}
ListedNames(r) == {body[r].databases[i].name : i \in 1..Len(body[r].databases)}
BothFailed(r) == Refused(r, "mysql") /\ Refused(r, "psql")

\* What the claim says apart from when the list is empty: MySQL is probed
\* first and PostgreSQL only after MySQL failed, one response is sent,
\* its entries have one type, and no PostgreSQL entry follows a MySQL
\* probe that succeeded.
ProbeOrder ==
  \A r \in Listers :
    /\ Len(cmds[r]) <= 2
    /\ Len(cmds[r]) >= 1 => cmds[r][1].site = "mysql"
    /\ Len(cmds[r]) = 2 => cmds[r][2].site = "psql" /\ ~cmds[r][1].ok
    /\ sent[r] = (IF pc[r] = "done" THEN 1 ELSE 0)
    /\ Cardinality(Types(r)) <= 1
    /\ Accepted(r, "mysql") => "PostgreSQL" \notin Types(r)
    /\ Accepted(r, "psql") => "MySQL" \notin Types(r)
    /\ (pc[r] = "done" /\ BothFailed(r)) => body[r].databases = <<>>

Offered(row) ==
  {row.buttons[i].action :
     i \in {k \in 1..Len(row.buttons) : row.buttons[k].handler = "controlVM"}}
Rows == UNION {{ui[r].rows[i] : i \in 1..Len(ui[r].rows)} : r \in Requests}

\* C30: for every VM row shown, the lifecycle actions offered are
\* transitions from the state shown (running: shutdown and suspend; shut
\* off: start; paused: resume; none otherwise), delete is offered in every
\* state, a running VM is never offered start or resume, and every action
\* offered is one the server accepts.
C30_Buttons ==
  \A row \in Rows :
    /\ Offered(row) \subseteq
         (CASE row.state = "running" -> {"shutdown", "suspend"}
            [] row.state = "shut off" -> {"start"}
            [] row.state = "paused" -> {"resume"}
            [] OTHER -> {})
    /\ \A a \in Offered(row) : Applicable(a, row.state)
    /\ \E i \in 1..Len(row.buttons) : row.buttons[i].handler = "deleteVM"
    /\ row.state = "running" => Offered(row) \cap {"start", "resume"} = {}
    /\ Offered(row) \subseteq validActions

\* A page shows a running VM beside a paused one, each with its buttons.
C30_Witness ==
  \E r \in Requests : \E i, j \in 1..Len(ui[r].rows) :
    /\ ui[r].rows[i].state = "running" /\ Offered(ui[r].rows[i]) # {}
    /\ ui[r].rows[j].state = "paused" /\ Offered(ui[r].rows[j]) # {}

====
